---- MODULE Spec2Model ----
(***************************************************************************)
(* Model of the Cypher query repair engine, agents/query_validator.py:     *)
(* QueryValidator.validate_and_fix with its seven rewrite rules and the    *)
(* heuristic issue check.  Query texts are TLA+ strings; offsets are the   *)
(* 0-based offsets of Python (s[:k] is SubSeq(s, 1, k)).  Every regular    *)
(* expression of the rule table is modelled by a matcher that returns the  *)
(* match Python's backtracking engine returns at a given start offset.     *)
(***************************************************************************)
EXTENDS Integers, Sequences, FiniteSets, TLC

(* ------------------------------ bounds --------------------------------- *)
\* most relationships in the MATCH pattern of a generated query
MaxRels == 1
\* most WHERE-introduced conditions of a generated query
MaxConds == 2
\* most unclosed '(' in the tail of a generated query
MaxOpen == 2
\* most items in the RETURN clause of a generated query
MaxItems == 3
\* most MATCH and OPTIONAL MATCH clauses of a generated query
MaxClauses == 3
\* most items of a query plan
MaxPlan == 2
\* most validate_and_fix calls under way at a time
MaxCallers == 2

\* the depth of the call stack at which RecursionError is raised
RecursionLimit == 6
\* most agents added to a workflow
MaxAgents == 3
\* most WHERE keywords in sequence in a generated query
MaxFold == 4

(* ------------------------- strings and classes ------------------------- *)
\* the character at 0-based offset p, "" past the end
At(s, p) == IF p >= 0 /\ p < Len(s) THEN SubSeq(s, p + 1, p + 1) ELSE ""

\* s[a:b]
Slice(s, a, b) == SubSeq(s, a + 1, b)

\* s.startswith(lit, p)
StartsAt(s, lit, p) == /\ p >= 0
                       /\ p + Len(lit) <= Len(s)
                       /\ SubSeq(s, p + 1, p + Len(lit)) = lit

\* lit in s
Contains(s, lit) == \E p \in 0..(Len(s) - Len(lit)) : StartsAt(s, lit, p)

\* s.find(lit, p), -1 when absent
RECURSIVE Find(_, _, _)
Find(s, lit, p) ==
    IF p + Len(lit) > Len(s) THEN -1
    ELSE IF StartsAt(s, lit, p) THEN p
    ELSE Find(s, lit, p + 1)

\* s.count(lit): non-overlapping occurrences, left to right
RECURSIVE CountFrom(_, _, _)
CountFrom(s, lit, p) ==
    LET f == Find(s, lit, p)
    IN  IF f < 0 THEN 0 ELSE 1 + CountFrom(s, lit, f + Len(lit))
Count(s, lit) == CountFrom(s, lit, 0)

\* s.replace(old, new)
RECURSIVE ReplaceFrom(_, _, _, _)
ReplaceFrom(s, old, new, p) ==
    LET f == Find(s, old, p)
    IN  IF f < 0 THEN Slice(s, p, Len(s))
        ELSE Slice(s, p, f) \o new \o ReplaceFrom(s, old, new, f + Len(old))
Replace(s, old, new) == ReplaceFrom(s, old, new, 0)

Lower == {"a", "b", "c", "d", "e", "f", "g", "h", "i", "j", "k", "l", "m",
          "n", "o", "p", "q", "r", "s", "t", "u", "v", "w", "x", "y", "z"}
Upper == {"A", "B", "C", "D", "E", "F", "G", "H", "I", "J", "K", "L", "M",
          "N", "O", "P", "Q", "R", "S", "T", "U", "V", "W", "X", "Y", "Z"}
Digits == {"0", "1", "2", "3", "4", "5", "6", "7", "8", "9"}
\* [a-zA-Z]
Letters == Lower \cup Upper
\* \w and [a-zA-Z0-9_]
WordChars == Letters \cup Digits \cup {"_"}
\* \s
Whitespace == {" ", "\n", "\t", "\r", "\f"}

\* length of the longest run of characters of class cls from offset p (greedy x*)
RECURSIVE RunLen(_, _, _)
RunLen(s, p, cls) ==
    IF p < Len(s) /\ At(s, p) \in cls THEN 1 + RunLen(s, p + 1, cls) ELSE 0

\* length of the longest run of characters outside excl from offset p ([^..]*)
RECURSIVE RunLenNot(_, _, _)
RunLenNot(s, p, excl) ==
    IF p < Len(s) /\ At(s, p) \notin excl THEN 1 + RunLenNot(s, p + 1, excl) ELSE 0

\* '.' matches every character of s[a:b]: none is a newline
NoNewline(s, a, b) == \A k \in a..(b - 1) : At(s, k) # "\n"

\* a re.Match: span [start, end) and the groups the rule uses
Match(st, en, s, a, b, c, d) ==
    [start |-> st, end |-> en, g0 |-> Slice(s, st, en),
     g1 |-> a, g2 |-> b, g3 |-> c, g4 |-> d]

(* --------------------- the patterns of error_fixes --------------------- *)
\* Each matcher returns the set holding the match at start offset p, or {}.
\* A pattern is matched piece by piece: each operator below checks one piece
\* and hands the offsets and groups found so far to the next.

\* Backtracking order.  For a quantifier that has several ways to match, the
\* candidates are tagged with their rank (the end offset of a lazy run, minus
\* the length of a greedy run) and the candidate of least rank is the match.
Tag(rank, M) == {<<rank, m>> : m \in M}
First(S) == {x[2] : x \in {y \in S : \A z \in S : y[1] <= z[1]}}

\* rule 1:  WHERE\s+(.+?)\s+WHERE\s+
\* k: length of the first \s+ (greedy), [g, e): the group (lazy), k2 and k3:
\* the whitespace before and after the second WHERE (runs that cannot be cut
\* short, as WHERE and the end of the pattern follow).
DuplicateWhere_End(s, p, g, e, en, k3) ==
    IF k3 >= 1
    THEN {Match(p, en + k3, s, Slice(s, g, e), "", "", "")}
    ELSE {}
DuplicateWhere_Second(s, p, g, e, k2) ==
    IF k2 >= 1 /\ StartsAt(s, "WHERE", e + k2) /\ NoNewline(s, g, e)
    THEN DuplicateWhere_End(s, p, g, e, e + k2 + 5,
                            RunLen(s, e + k2 + 5, Whitespace))
    ELSE {}
DuplicateWhere_Group(s, p, g) ==
    First(UNION {Tag(e, DuplicateWhere_Second(s, p, g, e,
                                              RunLen(s, e, Whitespace))) :
                 e \in (g + 1)..Len(s)})
MatchDuplicateWhere(s, p) ==
    IF ~StartsAt(s, "WHERE", p) THEN {}
    ELSE First(UNION {Tag(0 - k, DuplicateWhere_Group(s, p, p + 5 + k)) :
                      k \in 1..RunLen(s, p + 5, Whitespace)})

\* rule 2:  (\[)(:)([^\]]+)(\])
AnonymousRel_Type(s, p, n) ==
    IF n >= 1 /\ At(s, p + 2 + n) = "]"
    THEN {Match(p, p + 3 + n, s, "[", ":", Slice(s, p + 2, p + 2 + n), "]")}
    ELSE {}
MatchAnonymousRel(s, p) ==
    IF ~StartsAt(s, "[:", p) THEN {}
    ELSE AnonymousRel_Type(s, p, RunLenNot(s, p + 2, {"]"}))

\* rule 3:  ([^a-zA-Z0-9_])([a-zA-Z][a-zA-Z0-9_]*)\.([a-zA-Z][a-zA-Z0-9_]*)\s+
\* d: offset of the dot, n2: length of the property, w: length of \s+
PropertyAccess_Space(s, p, d, n2, w) ==
    IF w >= 1
    THEN {Match(p, d + 1 + n2 + w, s, At(s, p), Slice(s, p + 1, d),
                Slice(s, d + 1, d + 1 + n2), "")}
    ELSE {}
PropertyAccess_Prop(s, p, d, n2) ==
    PropertyAccess_Space(s, p, d, n2, RunLen(s, d + 1 + n2, Whitespace))
PropertyAccess_Dot(s, p, d) ==
    IF At(s, d) = "." /\ At(s, d + 1) \in Letters
    THEN PropertyAccess_Prop(s, p, d, RunLen(s, d + 1, WordChars))
    ELSE {}
MatchPropertyAccess(s, p) ==
    IF p < Len(s) /\ At(s, p) \notin WordChars /\ At(s, p + 1) \in Letters
    THEN PropertyAccess_Dot(s, p, p + 1 + RunLen(s, p + 1, WordChars))
    ELSE {}

\* rule 4:  \([^()]*?$      ($ is the end of the text, or just before a final
\* newline; the lazy run stops at the first of the two)
MatchUnclosedParen_EndOnly(s, p) ==
    IF At(s, p) = "(" /\ p + 1 + RunLenNot(s, p + 1, {"(", ")"}) = Len(s)
    THEN {Match(p, Len(s), s, "", "", "", "")}
    ELSE {}
MatchUnclosedParen(s, p) ==
    IF ~(At(s, p) = "(" /\ p + 1 + RunLenNot(s, p + 1, {"(", ")"}) = Len(s))
    THEN {}
    ELSE IF At(s, Len(s) - 1) = "\n"
         THEN {Match(p, Len(s) - 1, s, "", "", "", "")}
         ELSE {Match(p, Len(s), s, "", "", "", "")}

\* rule 5:  MATCH\s+path\s*=\s*\(([^:)]+):
\* a: offset of path, b: of '=', c: of '(', n: length of the group
PathAlias_Node(s, p, c, n) ==
    IF n >= 1 /\ At(s, c + 1 + n) = ":"
    THEN {Match(p, c + 2 + n, s, Slice(s, c + 1, c + 1 + n), "", "", "")}
    ELSE {}
PathAlias_Paren(s, p, c) ==
    IF At(s, c) = "("
    THEN PathAlias_Node(s, p, c, RunLenNot(s, c + 1, {":", ")"}))
    ELSE {}
PathAlias_Equals(s, p, b) ==
    IF At(s, b) = "="
    THEN PathAlias_Paren(s, p, b + 1 + RunLen(s, b + 1, Whitespace))
    ELSE {}
PathAlias_Path(s, p, a) ==
    IF a > p + 5 /\ StartsAt(s, "path", a)
    THEN PathAlias_Equals(s, p, a + 4 + RunLen(s, a + 4, Whitespace))
    ELSE {}
MatchPathAlias(s, p) ==
    IF ~StartsAt(s, "MATCH", p) THEN {}
    ELSE PathAlias_Path(s, p, p + 5 + RunLen(s, p + 5, Whitespace))

\* rule 6:
\*  (WHERE|AND)\s+\((\w+)\)-\[.*?\]->\((\w+)\)\s+AND\s+\(\2\)-\[.*?\]->\(\3\)
\* Both .*? are lazy: the first "]->(" (offset j) after which the rest
\* matches, then the first "]->(\3)" (offset k).
DuplicateCondition_Last(s, p, kw, g2, g3, d, k) ==
    IF NoNewline(s, d, k) /\ StartsAt(s, "]->(" \o g3 \o ")", k)
    THEN {Match(p, k + 5 + Len(g3), s, kw, g2, g3, "")}
    ELSE {}
DuplicateCondition_Again(s, p, kw, g2, g3, c, w3) ==
    IF w3 >= 1 /\ StartsAt(s, "(" \o g2 \o ")-[", c + w3)
    THEN First(UNION {Tag(k, DuplicateCondition_Last(s, p, kw, g2, g3,
                                      c + w3 + Len(g2) + 4, k)) :
                      k \in (c + w3 + Len(g2) + 4)..Len(s)})
    ELSE {}
DuplicateCondition_And(s, p, kw, g2, g3, c, w2) ==
    IF w2 >= 1 /\ StartsAt(s, "AND", c + w2)
    THEN DuplicateCondition_Again(s, p, kw, g2, g3, c + w2 + 3,
                                  RunLen(s, c + w2 + 3, Whitespace))
    ELSE {}
DuplicateCondition_Target(s, p, kw, g2, c, n3) ==
    IF n3 >= 1 /\ At(s, c + n3) = ")"
    THEN DuplicateCondition_And(s, p, kw, g2, Slice(s, c, c + n3), c + n3 + 1,
                                RunLen(s, c + n3 + 1, Whitespace))
    ELSE {}
DuplicateCondition_Arrow(s, p, kw, g2, b, j) ==
    IF StartsAt(s, "]->(", j) /\ NoNewline(s, b, j)
    THEN DuplicateCondition_Target(s, p, kw, g2, j + 4,
                                   RunLen(s, j + 4, WordChars))
    ELSE {}
DuplicateCondition_Source(s, p, kw, c, n2) ==
    IF n2 >= 1 /\ StartsAt(s, ")-[", c + n2)
    THEN First(UNION {Tag(j, DuplicateCondition_Arrow(s, p, kw,
                                      Slice(s, c, c + n2), c + n2 + 3, j)) :
                      j \in (c + n2 + 3)..Len(s)})
    ELSE {}
DuplicateCondition_Open(s, p, kw, c) ==
    IF c > p + Len(kw) /\ At(s, c) = "("
    THEN DuplicateCondition_Source(s, p, kw, c + 1, RunLen(s, c + 1, WordChars))
    ELSE {}
DuplicateCondition_Keyword(s, p, kw) ==
    IF kw = "" THEN {}
    ELSE DuplicateCondition_Open(s, p, kw,
             p + Len(kw) + RunLen(s, p + Len(kw), Whitespace))
MatchDuplicateCondition(s, p) ==
    DuplicateCondition_Keyword(s, p,
        IF StartsAt(s, "WHERE", p) THEN "WHERE"
        ELSE IF StartsAt(s, "AND", p) THEN "AND" ELSE "")

\* rule 7:  (MATCH.*?)-\[(\w+):([^\]]+)\]->.*?WHERE.*?\2\.(\w+)
\* The three .*? are lazy: the first "-[" (offset a) after which the rest
\* matches, then the first WHERE (offset w), then the first "\2." (offset v).
FilteredRel_Prop(s, p, a, g2, g3, c, n4) ==
    IF n4 >= 1
    THEN {Match(p, c + n4, s, Slice(s, p, a), g2, g3, Slice(s, c, c + n4))}
    ELSE {}
FilteredRel_Ref(s, p, a, g2, g3, w, v) ==
    IF NoNewline(s, w, v) /\ StartsAt(s, g2 \o ".", v)
    THEN FilteredRel_Prop(s, p, a, g2, g3, v + Len(g2) + 1,
                          RunLen(s, v + Len(g2) + 1, WordChars))
    ELSE {}
FilteredRel_Where(s, p, a, g2, g3, b, w) ==
    IF NoNewline(s, b, w) /\ StartsAt(s, "WHERE", w)
    THEN First(UNION {Tag(v, FilteredRel_Ref(s, p, a, g2, g3, w + 5, v)) :
                      v \in (w + 5)..Len(s)})
    ELSE {}
FilteredRel_Arrow(s, p, a, g2, c, n3) ==
    IF n3 >= 1 /\ StartsAt(s, "]->", c + n3)
    THEN First(UNION {Tag(w, FilteredRel_Where(s, p, a, g2,
                                 Slice(s, c, c + n3), c + n3 + 3, w)) :
                      w \in (c + n3 + 3)..Len(s)})
    ELSE {}
FilteredRel_Var(s, p, a, n2) ==
    IF n2 >= 1 /\ At(s, a + 2 + n2) = ":"
    THEN FilteredRel_Arrow(s, p, a, Slice(s, a + 2, a + 2 + n2), a + 3 + n2,
                           RunLenNot(s, a + 3 + n2, {"]"}))
    ELSE {}
FilteredRel_Bracket(s, p, a) ==
    IF StartsAt(s, "-[", a) /\ NoNewline(s, p + 5, a)
    THEN FilteredRel_Var(s, p, a, RunLen(s, a + 2, WordChars))
    ELSE {}
MatchFilteredRel(s, p) ==
    IF ~StartsAt(s, "MATCH", p) THEN {}
    ELSE First(UNION {Tag(a, FilteredRel_Bracket(s, p, a)) :
                      a \in (p + 5)..Len(s)})

\* the match of pattern number pat at offset p
MatchAt(pat, s, p) ==
    CASE pat = 1 -> MatchDuplicateWhere(s, p)
      [] pat = 2 -> MatchAnonymousRel(s, p)
      [] pat = 3 -> MatchPropertyAccess(s, p)
      [] pat = 4 -> MatchUnclosedParen(s, p)
      [] pat = 5 -> MatchPathAlias(s, p)
      [] pat = 6 -> MatchDuplicateCondition(s, p)
      [] pat = 7 -> MatchFilteredRel(s, p)

\* list(re.finditer(pattern, s)): the leftmost match from pos on, then the
\* leftmost match from its end on, and so on
RECURSIVE FindIter(_, _, _)
FindNext(pat, s, found) ==
    IF found = {} THEN <<>>
    ELSE <<CHOOSE m \in found : TRUE>>
         \o FindIter(pat, s, (CHOOSE m \in found : TRUE).end)
FindIter(pat, s, pos) ==
    FindNext(pat, s, First(UNION {Tag(p, MatchAt(pat, s, p)) : p \in pos..Len(s)}))

(* ------------------------- the rewriters ------------------------------- *)
\* _fix_undefined_relationship_var
_fix_undefined_relationship_var(m) ==
    IF m.g2 \in {"r", "R"} \/ (Len(m.g2) >= 3 /\
          At(m.g2, 0) \in {"r", "R"} /\ At(m.g2, 1) \in {"e", "E"} /\
          At(m.g2, 2) \in {"l", "L"})
    THEN m.g1 \o m.g2 \o "." \o m.g3 \o " "
    ELSE m.g0

\* _balance_parentheses
RECURSIVE Repeat(_, _)
Repeat(c, n) == IF n <= 0 THEN "" ELSE c \o Repeat(c, n - 1)

_balance_parentheses(m) ==
    LET missing == Count(m.g0, "(") - Count(m.g0, ")")
    IN  IF missing <= 0 THEN m.g0 ELSE m.g0 \o Repeat(")", missing)

\* _ensure_relationship_var_defined
_ensure_relationship_var_defined(m) ==
    IF Contains(m.g1, "-[" \o m.g2 \o ":")
    THEN m.g0
    ELSE Replace(m.g1, "-[:" \o m.g3 \o "]->", "-[" \o m.g2 \o ":" \o m.g3 \o "]->")
         \o "-[" \o m.g2 \o ":" \o m.g3 \o "]->.*?WHERE.*?" \o m.g2 \o "." \o m.g4

\* the expansion of a static replacement template for one match
Template(pat, m) ==
    CASE pat = 1 -> "WHERE " \o m.g1 \o " AND "
      [] pat = 2 -> m.g1 \o "r" \o m.g2 \o m.g3 \o m.g4
      [] pat = 5 -> "MATCH path = (n:" \o m.g1 \o ":"
      [] pat = 6 -> m.g1 \o " (" \o m.g2 \o ")-[]->" \o m.g3

\* the call replacement(match) of a rule whose replacement is a function
CallReplacement(pat, m) ==
    CASE pat = 3 -> _fix_undefined_relationship_var(m)
      [] pat = 4 -> _balance_parentheses(m)
      [] pat = 7 -> _ensure_relationship_var_defined(m)

\* the same pairs with the sixth put first
error_fixes_DedupeFirst ==
    << [pattern |-> 6, callable |-> FALSE],
       [pattern |-> 1, callable |-> FALSE],
       [pattern |-> 2, callable |-> FALSE],
       [pattern |-> 3, callable |-> TRUE],
       [pattern |-> 4, callable |-> TRUE],
       [pattern |-> 5, callable |-> FALSE],
       [pattern |-> 7, callable |-> TRUE] >>

\* the same pairs with the second and the last exchanged
error_fixes_Reordered ==
    << [pattern |-> 1, callable |-> FALSE],
       [pattern |-> 7, callable |-> TRUE],
       [pattern |-> 3, callable |-> TRUE],
       [pattern |-> 4, callable |-> TRUE],
       [pattern |-> 5, callable |-> FALSE],
       [pattern |-> 6, callable |-> FALSE],
       [pattern |-> 2, callable |-> FALSE] >>

\* self.error_fixes: the seven (pattern, replacement) pairs, in order
error_fixes ==
    << [pattern |-> 1, callable |-> FALSE],
       [pattern |-> 2, callable |-> FALSE],
       [pattern |-> 3, callable |-> TRUE],
       [pattern |-> 4, callable |-> TRUE],
       [pattern |-> 5, callable |-> FALSE],
       [pattern |-> 6, callable |-> FALSE],
       [pattern |-> 7, callable |-> TRUE] >>

\* re.sub(pattern, template, s): the text between the matches is kept, every
\* match is replaced by the expansion of the template
RECURSIVE SubFrom(_, _, _, _, _)
SubFrom(pat, s, ms, k, pos) ==
    IF k > Len(ms) THEN Slice(s, pos, Len(s))
    ELSE Slice(s, pos, ms[k].start) \o Template(pat, ms[k])
         \o SubFrom(pat, s, ms, k + 1, ms[k].end)
Sub_FirstMatchOnly(pat, s, matches) ==
    SubFrom(pat, s, IF matches = <<>> THEN <<>> ELSE <<matches[1]>>, 1, 0)
Sub(pat, s, matches) == SubFrom(pat, s, matches, 1, 0)

\* for match in matches: the same splice, first match first, every match at
\* the offsets of the upfront scan
RECURSIVE SpliceForward(_, _, _, _)
SpliceForward(pat, s, ms, k) ==
    IF k = 0 THEN s
    ELSE LET t == SpliceForward(pat, s, ms, k - 1)
         IN  Slice(t, 0, ms[k].start) \o CallReplacement(pat, ms[k])
                 \o Slice(t, ms[k].end, Len(t))

\* for match in reversed(matches): fixed_query = fixed_query[:match.start()]
\*     + replacement(match) + fixed_query[match.end():]
RECURSIVE SpliceReversed(_, _, _, _)
SpliceReversed(pat, s, ms, k) ==
    IF k = 0 THEN s
    ELSE SpliceReversed(pat,
             Slice(s, 0, ms[k].start) \o CallReplacement(pat, ms[k])
                 \o Slice(s, ms[k].end, Len(s)),
             ms, k - 1)

\* one iteration of the loop over error_fixes, given the matches of the
\* pattern in s
Rewrite(fix, s, matches) ==
    IF fix.callable
    THEN SpliceReversed(fix.pattern, s, matches, Len(matches))
    ELSE Sub(fix.pattern, s, matches)
ApplyFix(fix, s) == Rewrite(fix, s, FindIter(fix.pattern, s, 0))

\* the text after the first n rules
RECURSIVE ApplyFixes(_, _)
ApplyFixes(s, n) ==
    IF n = 0 THEN s ELSE ApplyFix(error_fixes[n], ApplyFixes(s, n - 1))

(* ------------------------ _check_known_issues -------------------------- *)
\* re.search(r'WHERE.*?\w+\.\w+', query)
HasWherePropertyAccess(s) ==
    \E w \in 0..Len(s) :
        /\ StartsAt(s, "WHERE", w)
        /\ \E d \in (w + 6)..Len(s) :
              /\ At(s, d) = "."
              /\ At(s, d - 1) \in WordChars
              /\ At(s, d + 1) \in WordChars
              /\ NoNewline(s, w + 5, d)

\* re.search(r'MATCH.*?\[(\w+):', query)
HasRelationshipVar(s) ==
    \E m \in 0..Len(s) :
        /\ StartsAt(s, "MATCH", m)
        /\ \E b \in (m + 5)..Len(s) :
              /\ At(s, b) = "["
              /\ NoNewline(s, m + 5, b)
              /\ RunLen(s, b + 1, WordChars) >= 1
              /\ At(s, b + 1 + RunLen(s, b + 1, WordChars)) = ":"

\* re.search(r'\[.*\*.*\]', query)
HasVarLengthPath(s) ==
    \E a \in 0..Len(s) :
        /\ At(s, a) = "["
        /\ \E b \in (a + 1)..Len(s) :
              /\ At(s, b) = "*"
              /\ \E c \in (b + 1)..Len(s) :
                    /\ At(s, c) = "]"
                    /\ NoNewline(s, a, c)

\* re.search(r'\[.*\*\d+\.\.', query)
HasLowerBound(s) ==
    \E a \in 0..Len(s) :
        /\ At(s, a) = "["
        /\ \E b \in (a + 1)..Len(s) :
              /\ At(s, b) = "*"
              /\ NoNewline(s, a, b)
              /\ RunLen(s, b + 1, Digits) >= 1
              /\ StartsAt(s, "..", b + 1 + RunLen(s, b + 1, Digits))

\* query.count('MATCH ') > 1 and 'WHERE' not in query
HasCartesianProduct_AnyMatch(s) ==
    Count(s, "MATCH ") >= 1 /\ ~Contains(s, "WHERE")
HasCartesianProduct(s) ==
    Count(s, "MATCH ") > 1 /\ ~Contains(s, "WHERE")

_check_known_issues(s) ==
    (IF HasWherePropertyAccess(s) /\ ~HasRelationshipVar(s)
     THEN <<"Possible undefined relationship variable">> ELSE <<>>)
    \o
    (IF HasCartesianProduct(s)
     THEN <<"Possible cartesian product (multiple MATCH without WHERE)">>
     ELSE <<>>)
    \o
    (IF Contains(s, "OPTIONAL MATCH") /\ Count(s, "OPTIONAL MATCH") > 2
     THEN <<"Multiple OPTIONAL MATCH clauses may cause performance issues">>
     ELSE <<>>)
    \o
    (IF HasVarLengthPath(s) /\ ~HasLowerBound(s)
     THEN <<"Unbounded variable-length path may cause performance issues">>
     ELSE <<>>)

\* ', '.join(issues)
RECURSIVE Join(_)
Join(xs) ==
    IF xs = <<>> THEN ""
    ELSE IF Len(xs) = 1 THEN xs[1]
    ELSE xs[1] \o ", " \o Join(Tail(xs))

(* --------------------------- Python values ----------------------------- *)
\* A value is its type and its text (the characters of a str, the repr of
\* anything else).
Str(s) == [type |-> "str", val |-> s]
None == [type |-> "NoneType", val |-> "None"]
PyInt(repr) == [type |-> "int", val |-> repr]
PyList(repr) == [type |-> "list", val |-> repr]

\* bool(v)
Truthy(v) ==
    CASE v.type = "str" -> v.val # ""
      [] v.type = "NoneType" -> FALSE
      [] v.type = "int" -> v.val # "0"
      [] v.type = "list" -> v.val # "[]"

\* the guard of the only hard failure path
InvalidInput_NoTypeCheck(q) == ~Truthy(q)
InvalidInput(q) == ~Truthy(q) \/ q.type # "str"

\* the triple returned on the failure path
RejectResult_EmptyText(q) ==
    [fixed_query |-> Str(""), is_valid |-> FALSE,
     message |-> Str("Invalid query: Query must be a non-empty string")]
RejectResult(q) ==
    [fixed_query |-> q, is_valid |-> FALSE,
     message |-> Str("Invalid query: Query must be a non-empty string")]

\* the triple returned after the rules and the issue check
Message(issues) ==
    IF issues # <<>>
    THEN Str("Query has potential issues: " \o Join(issues))
    ELSE None
FixResult_MessageAlways(fixed) ==
    [fixed_query |-> Str(fixed), is_valid |-> TRUE,
     message |-> Str("Query has potential issues: "
                     \o Join(_check_known_issues(fixed)))]
FixResult(fixed) ==
    [fixed_query |-> Str(fixed), is_valid |-> TRUE,
     message |-> Message(_check_known_issues(fixed))]

\* validate_and_fix as a function of its argument
validate_and_fix(q) ==
    IF InvalidInput(q) THEN RejectResult(q)
    ELSE FixResult(ApplyFixes(q.val, Len(error_fixes)))

\* the log records written after the rules: three info records when the text
\* changed, a warning when the length ratio leaves [0.8, 1.2], a warning when
\* issues were found
LogRecords(original, fixed, issues) ==
    (IF fixed # original THEN <<"INFO", "INFO", "INFO">> ELSE <<>>)
    \o
    (IF fixed # original /\ (5 * Len(fixed) < 4 * Len(original)
                             \/ 5 * Len(fixed) > 6 * Len(original))
     THEN <<"WARNING">> ELSE <<>>)
    \o
    (IF issues THEN <<"WARNING">> ELSE <<>>)

(* ------------------------------ inputs --------------------------------- *)
\* every concatenation of at most n of the parts
RECURSIVE Chains(_, _)
Chains(parts, n) ==
    IF n = 0 THEN {""}
    ELSE LET S == Chains(parts, n - 1)
         IN  S \cup {x \o y : x \in S, y \in parts}

\* at most n conditions, each introduced by WHERE, separated by sep
RECURSIVE WhereLists(_, _, _)
WhereLists(conds, sep, n) ==
    IF n = 0 THEN {""}
    ELSE LET S == WhereLists(conds, sep, n - 1)
         IN  S \cup {x \o sep \o "WHERE " \o c : x \in S, c \in conds}

PathStarts == {"MATCH path = (c:L)", "MATCH path = (:L)"}
RelTexts == {"-[:T]->(b)", "-[r:T]->(b)", "-[rel:T]->(b)", "-[:T*]->(b)"}
Seps == {" ", "\n"}
SimpleConds == {"a.x = 1", "r.x = 1", "rel.x = 1"}
DuplicatedCond == "(a)-[:T]->(b) AND (a)-[:T]->(b)"
CondTexts == SimpleConds \cup {DuplicatedCond}
\* at most n WHERE conditions, all on the MATCH line or each on its own line
WhereClauses(n) == UNION {WhereLists(CondTexts, sep, n) : sep \in Seps}
\* a RETURN clause that leaves k parentheses open
ReturnTail(k) == " RETURN " \o Repeat("f(", k) \o "a"

\* a relationship pattern filtered by up to MaxConds WHERE conditions
FilterQueries ==
    {"MATCH (a)" \o rels \o wh \o ReturnTail(0) :
        rels \in Chains(RelTexts, MaxRels), wh \in WhereClauses(MaxConds)}
\* a named path, with and without a variable on its first node
PathQueries ==
    {st \o rels \o wh \o ReturnTail(0) :
        st \in PathStarts, rels \in Chains(RelTexts, MaxRels),
        wh \in WhereClauses(1)}
\* a query that ends with 1..MaxOpen parentheses open
OpenQueries ==
    {"MATCH (a)" \o rels \o wh \o ReturnTail(k) :
        rels \in Chains(RelTexts, 1), wh \in WhereClauses(1), k \in 1..MaxOpen}


\* at most n RETURN items, n >= 1, separated by ", "
RECURSIVE ItemLists(_, _)
ItemLists(items, n) ==
    IF n = 1 THEN items
    ELSE LET S == ItemLists(items, n - 1)
         IN  S \cup {x \o ", " \o y : x \in S, y \in items}

ProjectedVars == {"a", "r"}
Gaps == {" ", "  ", "\n"}
\* a property of a node or of the relationship, then an alias
ReturnItems == {v \o ".x" \o g \o "AS x" : v \in ProjectedVars, g \in Gaps}
\* a query that returns up to MaxItems properties
ProjectionQueries ==
    {"MATCH (a)-[r:T]->(b) RETURN " \o l : l \in ItemLists(ReturnItems, MaxItems)}

\* at most n clauses, n >= 1, separated by sep
RECURSIVE ClauseLists(_, _, _)
ClauseLists(clauses, sep, n) ==
    IF n = 1 THEN clauses
    ELSE LET S == ClauseLists(clauses, sep, n - 1)
         IN  S \cup {x \o sep \o y : x \in S, y \in clauses}

ClauseTexts == {"MATCH (c)", "MATCH (a)-[:T]->(b)",
                "MATCH (a)-[r:T]->(b) WHERE r.x = 1",
                "OPTIONAL MATCH (a)-[:T*]->(b)"}
\* up to MaxClauses clauses on one line or each on its own line
ClauseQueries ==
    {l \o " RETURN a" :
        l \in UNION {ClauseLists(ClauseTexts, sep, MaxClauses) : sep \in Seps}}

\* relationships of fixed and of variable length, with and without a range
VarLengthRels == {"", "-[:T]->(b)", "-[:T*]->(b)", "-[:T*1..2]->(b)",
                  "-[:T*..2]->(b)"}
\* a MATCH pattern of up to two of them
VarLengthQueries ==
    {"MATCH (a)" \o x \o y \o " RETURN a" :
        x \in VarLengthRels, y \in VarLengthRels}

\* 2..MaxFold property comparisons, each introduced by its own WHERE
FoldConds == {"a.x = 1", "a.y = 2"}
FoldLists == UNION {[1..k -> FoldConds] : k \in 2..MaxFold}
RECURSIVE FoldText(_, _, _)
FoldText(conds, sep, n) ==
    IF n = 0 THEN "MATCH (a)"
    ELSE FoldText(conds, sep, n - 1) \o sep \o "WHERE " \o conds[n]
FoldQueries ==
    {FoldText(conds, sep, Len(conds)) \o ReturnTail(0) :
        conds \in FoldLists, sep \in Seps}

\* a pattern of two relationships of different types, anonymous or named,
\* from a node named a or r
HopStarts == {"(a)", "(r)"}
FirstHops == {"-[:A]->", "-[r:A]->"}
SecondHops == {"-[:B]->", "-[s:B]->"}
HopQueries ==
    {"MATCH " \o n \o h1 \o "(b)" \o h2 \o "(c) RETURN b" :
        n \in HopStarts, h1 \in FirstHops, h2 \in SecondHops}

\* queries that end with one or two newlines, with and without a
\* parenthesis left open, and one whose last parenthesis closes
TailQueries ==
    {"MATCH (a) RETURN a\n", "MATCH (a) RETURN f(a\n",
     "MATCH (a) RETURN f(f(a\n", "MATCH (a) RETURN f(a\n\n",
     "MATCH (a) RETURN f(g(a)"}

\* one relationship condition twice, each copy introduced by its own WHERE
RepeatedCond == "(a)-[:R]->(b)"
RepeatedCondQueries ==
    {"MATCH (a)" \o rel \o sep \o "WHERE " \o RepeatedCond \o sep
         \o "WHERE " \o RepeatedCond \o more \o ReturnTail(0) :
        rel \in {"", "-[:R]->(b)", "-[r:R]->(b)"}, sep \in Seps,
        more \in {"", " AND r.x = 1"}}

Queries ==
    FilterQueries \cup PathQueries \cup OpenQueries \cup ProjectionQueries
    \cup ClauseQueries \cup VarLengthQueries \cup FoldQueries
    \cup HopQueries \cup TailQueries \cup RepeatedCondQueries
    \cup {"   ", "MATCH (a)-[:T]->(b"}

NonStrings == {None, PyInt("0"), PyInt("5"), PyList("[]"), PyList("[1]")}

Inputs == {Str(s) : s \in Queries \cup {""}} \cup NonStrings

(* --------------------------- state machine ----------------------------- *)
VARIABLES
    query,           \* the argument of the call
    pc,              \* "call", "fix" (in the loop), "check", "done"
    i,               \* index in error_fixes of the next rule
    fixed_query,     \* the local fixed_query
    original_query,  \* the local original_query
    matches,         \* the local matches of the last rule with a function
    applied,         \* history: the rules applied and the issue check, in order
    log,             \* the levels of the log records written
    result           \* the returned triple, once pc = "done"

\* GraphRetrieverAgent.process (agents/graph_retriever.py)
VARIABLES
    query_plan,          \* input_data['query_plan']: items (purpose, cypher)
    rpc,                 \* "start", "loop", "execute", "done"
    item,                \* index in query_plan of query_item
    graph_db,            \* self.graph_db: "None", "connected", "disconnected"
    semantic_results,    \* the local semantic_results
    fixed_cypher,        \* the local fixed_cypher
    validation_message,  \* the local validation_message
    retrieved_context,   \* the local retrieved_context
    validated,           \* history: the arguments of validate_and_fix
    executed,            \* history: the arguments of execute_query
    response             \* the returned dict, once rpc = "done"

\* QueryValidator instances and the calls of several callers
VARIABLES
    error_fixes_of,  \* self.error_fixes of every instance
    call_engine,     \* the instance each caller calls
    call_query,      \* the argument of each caller's call
    call_pc,         \* "call", "fix", "check", "done" for each caller
    call_i,          \* index in self.error_fixes of each caller's next rule
    call_fixed,      \* the local fixed_query of each caller's call
    call_result,     \* the triple returned to each caller
    overlap          \* history: a call took a step while another call on
                     \* the same instance was in its loop

\* SchemaManager (schema/manager.py) and GraphRAGAgent.refresh_schema
VARIABLES
    schema,              \* self.schema: "None", "stale", "fresh"
    rich_context,        \* self.rich_context: "None", "context"
    schema_cache,        \* self.schema_cache: key -> cached value or "None"
    example_repository,  \* the stored examples: "[]", "[examples]"
    llm_client,          \* self.llm_client is set
    loader,              \* schema_loader.load_schema: "ok", "raises"
    frames,              \* the call stack: frames (fn, force_refresh, at)
    returned,            \* the value returned by the call that just ended
    raised,              \* the exception in flight, or "None"
    called,              \* the entry point called last
    api_result           \* what that call gave its caller, or "None"

\* WorkflowManager (graph_rag/workflow_manager.py)
VARIABLES
    agents,               \* self.agents: name -> agent (0: no such key)
    agent_pipeline,       \* self.agent_pipeline: names
    added,                \* history: the agents given to add_agent, in order
    wpc,                  \* "build", "run", "done"
    agent_index,          \* index in agent_pipeline of agent_name
    pipeline_result,      \* the local result of run_pipeline
    calls,                \* history: the execute calls (agent, data)
    serializable_result   \* the returned value, once wpc = "done"

\* two process calls on one GraphRetrieverAgent (agents/graph_retriever.py)
VARIABLES
    shared_graph_db,  \* self.graph_db of the instance: 0 (None) or a strategy
    strategies,       \* the strategies created: "created", "open", "closed"
    proc_pc,          \* "start", "connect", "loop", "done" for each call
    proc_plan,        \* the number of queries of each call's plan
    proc_item,        \* index in the plan of each call's next query
    proc_db,          \* history: the strategy each call created (0: none)
    proc_ran,         \* history: what each execute_query of a call ran on
    proc_response     \* "None", "ok", "error" for each call

validator_vars == <<query, pc, i, fixed_query, original_query, matches,
                    applied, log, result>>
retriever_vars == <<query_plan, rpc, item, graph_db, semantic_results,
                    fixed_cypher, validation_message, retrieved_context,
                    validated, executed, response>>
caller_vars == <<error_fixes_of, call_engine, call_query, call_pc, call_i,
                 call_fixed, call_result, overlap>>
schema_vars == <<schema, rich_context, schema_cache, example_repository,
                 llm_client, loader, frames, returned, raised, called,
                 api_result>>
workflow_vars == <<agents, agent_pipeline, added, wpc, agent_index,
                   pipeline_result, calls, serializable_result>>
overlap_vars == <<shared_graph_db, strategies, proc_pc, proc_plan, proc_item,
                  proc_db, proc_ran, proc_response>>
vars == <<validator_vars, retriever_vars, caller_vars, schema_vars, workflow_vars, overlap_vars>>

NoResult == [fixed_query |-> None, is_valid |-> FALSE, message |-> None]

\* no process call is under way
RetrieverIdle ==
    /\ query_plan = <<>>
    /\ rpc = "idle"
    /\ item = 1
    /\ graph_db = "None"
    /\ semantic_results = <<>>
    /\ fixed_cypher = None
    /\ validation_message = None
    /\ retrieved_context = <<>>
    /\ validated = <<>>
    /\ executed = <<>>
    /\ response = "None"

\* the schema manager as constructed, no call under way
SchemaIdle ==
    /\ schema = "None"
    /\ rich_context = "None"
    /\ schema_cache = [key \in {"schema", "rich_context"} |-> "None"]
    /\ example_repository = "[]"
    /\ llm_client = FALSE
    /\ loader = "ok"
    /\ frames = <<>>
    /\ returned = "NoValue"
    /\ raised = "None"
    /\ called = "None"
    /\ api_result = "None"

\* the names agents are given
AgentNames == {"agent1", "agent2", "agent3"}

\* a dict passed along the pipeline: the agent whose output it is (0 for
\* the input data), what its payload holds, and the keys run_pipeline sets
Dict(step, payload, error_agent, processing_time) ==
    [step |-> step, payload |-> payload, error_agent |-> error_agent,
     processing_time |-> processing_time]

NoDict == Dict(0, "None", "None", FALSE)
input_data == Dict(0, "str", "None", FALSE)

\* the workflow manager as constructed
WorkflowIdle ==
    /\ agents = [name \in AgentNames |-> 0]
    /\ agent_pipeline = <<>>
    /\ added = <<>>
    /\ wpc = "idle"
    /\ agent_index = 1
    /\ pipeline_result = NoDict
    /\ calls = <<>>
    /\ serializable_result = NoDict

\* the two calls of process on the one instance
ProcessCalls == {1, 2}

\* the retriever as constructed (line 41: self.graph_db = None), no call
OverlapIdle ==
    /\ shared_graph_db = 0
    /\ strategies = <<>>
    /\ proc_pc = [t \in ProcessCalls |-> "idle"]
    /\ proc_plan = [t \in ProcessCalls |-> 0]
    /\ proc_item = [t \in ProcessCalls |-> 1]
    /\ proc_db = [t \in ProcessCalls |-> 0]
    /\ proc_ran = [t \in ProcessCalls |-> <<>>]
    /\ proc_response = [t \in ProcessCalls |-> "None"]

\* the instances and the callers
Engines == {1, 2}
Callers == 1..MaxCallers

\* no caller has a call under way
CallersIdle ==
    /\ error_fixes_of = [e \in Engines |-> error_fixes]
    /\ call_engine = [t \in Callers |-> 1]
    /\ call_query = [t \in Callers |-> None]
    /\ call_pc = [t \in Callers |-> "idle"]
    /\ call_i = [t \in Callers |-> 1]
    /\ call_fixed = [t \in Callers |-> ""]
    /\ call_result = [t \in Callers |-> NoResult]
    /\ overlap = FALSE

Init ==
    /\ RetrieverIdle
    /\ CallersIdle
    /\ SchemaIdle
    /\ WorkflowIdle
    /\ OverlapIdle
    /\ query \in Inputs
    /\ pc = "call"
    /\ i = 1
    /\ fixed_query = ""
    /\ original_query = ""
    /\ matches = <<>>
    /\ applied = <<>>
    /\ log = <<>>
    /\ result = NoResult

\* lines 105-106: the input is empty or not a string
Reject ==
    /\ pc = "call"
    /\ InvalidInput(query)
    /\ result' = RejectResult(query)
    /\ pc' = "done"
    /\ UNCHANGED <<query, i, fixed_query, original_query, matches, applied, log>>
    /\ UNCHANGED <<retriever_vars, caller_vars, schema_vars, workflow_vars, overlap_vars>>

\* lines 108-109
Enter ==
    /\ pc = "call"
    /\ ~InvalidInput(query)
    /\ fixed_query' = query.val
    /\ original_query' = query.val
    /\ pc' = "fix"
    /\ UNCHANGED <<query, i, matches, applied, log, result>>
    /\ UNCHANGED <<retriever_vars, caller_vars, schema_vars, workflow_vars, overlap_vars>>

\* lines 112-118: a rule whose replacement is a function
ApplyCallable ==
    /\ pc = "fix"
    /\ i <= Len(error_fixes)
    /\ error_fixes[i].callable
    /\ matches' = FindIter(error_fixes[i].pattern, fixed_query, 0)
    /\ fixed_query' = Rewrite(error_fixes[i], fixed_query, matches')
    /\ applied' = Append(applied, error_fixes[i].pattern)
    /\ i' = i + 1
    /\ pc' = IF i = Len(error_fixes) THEN "check" ELSE "fix"
    /\ UNCHANGED <<query, original_query, log, result>>
    /\ UNCHANGED <<retriever_vars, caller_vars, schema_vars, workflow_vars, overlap_vars>>

\* lines 112, 119-121: a rule whose replacement is a template
ApplyTemplate ==
    /\ pc = "fix"
    /\ i <= Len(error_fixes)
    /\ ~error_fixes[i].callable
    /\ fixed_query' = ApplyFix(error_fixes[i], fixed_query)
    /\ applied' = Append(applied, error_fixes[i].pattern)
    /\ i' = i + 1
    /\ pc' = IF i = Len(error_fixes) THEN "check" ELSE "fix"
    /\ UNCHANGED <<query, original_query, matches, log, result>>
    /\ UNCHANGED <<retriever_vars, caller_vars, schema_vars, workflow_vars, overlap_vars>>

\* lines 123-139: log the changes, check for known issues, return
Finish ==
    /\ pc = "check"
    /\ LET r == FixResult(fixed_query)
       IN  /\ log' = log \o LogRecords(original_query, fixed_query,
                                        r.message # None)
           /\ result' = r
    /\ applied' = Append(applied, 0)
    /\ pc' = "done"
    /\ UNCHANGED <<query, i, fixed_query, original_query, matches>>
    /\ UNCHANGED <<retriever_vars, caller_vars, schema_vars, workflow_vars, overlap_vars>>

Next == Reject \/ Enter \/ ApplyCallable \/ ApplyTemplate \/ Finish

Spec == Init /\ [][Next]_vars

(* ------------------- GraphRetrieverAgent.process ----------------------- *)
\* str.lower()
UpperCase == "ABCDEFGHIJKLMNOPQRSTUVWXYZ"
LowerCase == "abcdefghijklmnopqrstuvwxyz"
RECURSIVE ToLower(_)
ToLower(s) ==
    IF s = "" THEN ""
    ELSE (IF At(s, 0) \in Upper
          THEN At(LowerCase, Find(UpperCase, At(s, 0), 0))
          ELSE At(s, 0))
         \o ToLower(Slice(s, 1, Len(s)))

\* the query executed for an item whose cypher is not valid
FallbackQuery(purpose) ==
    IF Contains(ToLower(purpose), "table")
    THEN "MATCH (n:Table) RETURN n LIMIT 25"
    ELSE "MATCH (n) RETURN n LIMIT 25"

\* fixed_cypher once the verdict r of the validator is known
CypherToExecute_Unchecked(r, purpose) == r.fixed_query
CypherToExecute(r, purpose) ==
    IF ~r.is_valid THEN Str(FallbackQuery(purpose)) ELSE r.fixed_query

\* the entries of retrieved_context
\* (kind tells the three dicts apart: "error" has the key 'error', "semantic"
\* the key 'is_semantic_search'; a key a dict does not have is None)
FormattedResult(purpose, cypher, fixed, message, rows) ==
    [kind |-> "result", purpose |-> purpose, original_cypher |-> cypher,
     executed_cypher |-> fixed, was_modified |-> (fixed # cypher),
     validation_message |-> message, error |-> None,
     result |-> rows, result_count |-> Len(rows)]
ErrorResult_Unmarked(purpose, cypher) ==
    [kind |-> "result", purpose |-> purpose, original_cypher |-> cypher,
     executed_cypher |-> None, was_modified |-> FALSE,
     validation_message |-> None, error |-> None,
     result |-> <<>>, result_count |-> 0]
ErrorResult(purpose, cypher) ==
    [kind |-> "error", purpose |-> purpose, original_cypher |-> cypher,
     executed_cypher |-> None, was_modified |-> FALSE,
     validation_message |-> None, error |-> Str("query_error"),
     result |-> <<>>, result_count |-> 0]
SemanticResult ==
    [kind |-> "semantic", purpose |-> "Semantic entity search",
     original_cypher |-> Str("SEMANTIC SEARCH: "),
     executed_cypher |-> Str("Used vector similarity search"),
     was_modified |-> FALSE, validation_message |-> Str(""),
     error |-> None, result |-> <<"entity">>, result_count |-> 1]
\* what execute_query answers: no record, or records
Rows == {<<>>, <<"record">>}

\* the plans: up to MaxPlan items, each a purpose and a cypher; a missing
\* cypher is the default ''
Purposes == {"Unknown purpose", "List Tables"}
Cyphers == {Str(""), Str("MATCH (a)-[:T]->(b) RETURN a"),
            Str("MATCH (a) WHERE a.x = 1 RETURN a"), PyInt("5")}
QueryItems == {[purpose |-> p, cypher |-> c] : p \in Purposes, c \in Cyphers}
RECURSIVE Plans(_)
Plans(n) ==
    IF n = 0 THEN {<<>>}
    ELSE LET S == Plans(n - 1)
         IN  S \cup {Append(x, y) : x \in S, y \in QueryItems}

\* no validate_and_fix call of the stepwise machine is under way
ValidatorIdle ==
    /\ query = None
    /\ pc = "idle"
    /\ i = 1
    /\ fixed_query = ""
    /\ original_query = ""
    /\ matches = <<>>
    /\ applied = <<>>
    /\ log = <<>>
    /\ result = NoResult

ProcessInit ==
    /\ ValidatorIdle
    /\ CallersIdle
    /\ SchemaIdle
    /\ WorkflowIdle
    /\ OverlapIdle
    /\ query_plan \in Plans(MaxPlan)
    /\ rpc = "start"
    /\ item = 1
    /\ graph_db = "None"
    /\ semantic_results = <<>>
    /\ fixed_cypher = None
    /\ validation_message = None
    /\ retrieved_context = <<>>
    /\ validated = <<>>
    /\ executed = <<>>
    /\ response = "None"

\* close_database (lines 89-94): self.graph_db after the call; the strategy's
\* close() answers a bool and does not raise
close_database_Keeps(db) == db
close_database(db) == "None"

\* lines 124-129: nothing to execute
ProcessNoPlan ==
    /\ rpc = "start"
    /\ query_plan = <<>>
    /\ response' = "No queries to execute"
    /\ rpc' = "done"
    /\ UNCHANGED <<query_plan, item, graph_db, semantic_results, fixed_cypher,
                   validation_message, retrieved_context, validated, executed>>
    /\ UNCHANGED <<validator_vars, caller_vars, schema_vars, workflow_vars, overlap_vars>>

\* lines 131-142: connect (connect() answers True or False), search
\* semantically when the retriever is there, start the loop
ProcessConnect ==
    /\ rpc = "start"
    /\ query_plan # <<>>
    /\ \E connected \in BOOLEAN :
          /\ graph_db' = IF connected THEN "connected" ELSE "disconnected"
          /\ semantic_results' \in
                IF connected THEN {<<>>, <<"entity">>} ELSE {<<>>}
    /\ retrieved_context' = <<>>
    /\ item' = 1
    /\ rpc' = "loop"
    /\ UNCHANGED <<query_plan, fixed_cypher, validation_message, validated,
                   executed, response>>
    /\ UNCHANGED <<validator_vars, caller_vars, schema_vars, workflow_vars, overlap_vars>>

\* lines 131-133, 222-230: connecting raises; the connection is closed and an
\* error is returned
ProcessConnectError ==
    /\ rpc = "start"
    /\ query_plan # <<>>
    /\ graph_db' = close_database(graph_db)
    /\ response' = "error"
    /\ rpc' = "done"
    /\ UNCHANGED <<query_plan, item, semantic_results, fixed_cypher,
                   validation_message, retrieved_context, validated, executed>>
    /\ UNCHANGED <<validator_vars, caller_vars, schema_vars, workflow_vars, overlap_vars>>

\* lines 143-149: an item without cypher is skipped
ProcessSkipEmpty ==
    /\ rpc = "loop"
    /\ item <= Len(query_plan)
    /\ ~Truthy(query_plan[item].cypher)
    /\ item' = item + 1
    /\ UNCHANGED <<query_plan, rpc, graph_db, semantic_results, fixed_cypher,
                   validation_message, retrieved_context, validated, executed,
                   response>>
    /\ UNCHANGED <<validator_vars, caller_vars, schema_vars, workflow_vars, overlap_vars>>

\* lines 143-172: validate and fix the cypher of the item, fall back when it
\* is not valid
ProcessValidate ==
    /\ rpc = "loop"
    /\ item <= Len(query_plan)
    /\ Truthy(query_plan[item].cypher)
    /\ LET r == validate_and_fix(query_plan[item].cypher)
       IN  /\ fixed_cypher' = CypherToExecute(r, query_plan[item].purpose)
           /\ validation_message' = r.message
    /\ validated' = Append(validated, query_plan[item].cypher)
    /\ rpc' = "execute"
    /\ UNCHANGED <<query_plan, item, graph_db, semantic_results,
                   retrieved_context, executed, response>>
    /\ UNCHANGED <<validator_vars, caller_vars, schema_vars, workflow_vars, overlap_vars>>

\* lines 174-187: execute_query answers
ProcessExecute ==
    /\ rpc = "execute"
    /\ executed' = Append(executed, fixed_cypher)
    /\ \E rows \in Rows :
          retrieved_context' =
             Append(retrieved_context,
                    FormattedResult(query_plan[item].purpose,
                                    query_plan[item].cypher, fixed_cypher,
                                    validation_message, rows))
    /\ item' = item + 1
    /\ rpc' = "loop"
    /\ UNCHANGED <<query_plan, graph_db, semantic_results, fixed_cypher,
                   validation_message, validated, response>>
    /\ UNCHANGED <<validator_vars, caller_vars, schema_vars, workflow_vars, overlap_vars>>

\* lines 174, 189-197: execute_query raises
ProcessExecuteError ==
    /\ rpc = "execute"
    /\ executed' = Append(executed, fixed_cypher)
    /\ retrieved_context' =
          Append(retrieved_context,
                 ErrorResult(query_plan[item].purpose, query_plan[item].cypher))
    /\ item' = item + 1
    /\ rpc' = "loop"
    /\ UNCHANGED <<query_plan, graph_db, semantic_results, fixed_cypher,
                   validation_message, validated, response>>
    /\ UNCHANGED <<validator_vars, caller_vars, schema_vars, workflow_vars, overlap_vars>>

\* lines 199-220: add the semantic results, close the connection, return
ProcessReturn ==
    /\ rpc = "loop"
    /\ item > Len(query_plan)
    /\ retrieved_context' =
          IF semantic_results # <<>>
          THEN Append(retrieved_context, SemanticResult)
          ELSE retrieved_context
    /\ graph_db' = close_database(graph_db)
    /\ response' = "ok"
    /\ rpc' = "done"
    /\ UNCHANGED <<query_plan, item, semantic_results, fixed_cypher,
                   validation_message, validated, executed>>
    /\ UNCHANGED <<validator_vars, caller_vars, schema_vars, workflow_vars, overlap_vars>>

ProcessNext ==
    \/ ProcessNoPlan
    \/ ProcessConnect
    \/ ProcessConnectError
    \/ ProcessSkipEmpty
    \/ ProcessValidate
    \/ ProcessExecute
    \/ ProcessExecuteError
    \/ ProcessReturn

ProcessSpec == ProcessInit /\ [][ProcessNext]_vars

(* ------------- calls of several callers on shared instances ------------ *)
\* the arguments of the calls
CallInputs == {Str("MATCH (a)-[:T]->(b) WHERE r.x = 1 RETURN a"),
               Str("MATCH (a) RETURN f(a"), None}

\* the local fixed_query of caller t: every call has its own
LocalText_OfFirstCall(texts, t) == texts[1]
LocalText(texts, t) == texts[t]

\* self.error_fixes after a call: the loop reads the list and never assigns
\* to it
TableAfterCall_Reversed(table) ==
    [k \in 1..Len(table) |-> table[Len(table) + 1 - k]]
TableAfterCall(table) == table

\* another call on the instance of caller t is in its loop
OthersUnderWay(t) ==
    \E u \in Callers \ {t} :
        /\ call_engine[u] = call_engine[t]
        /\ call_pc[u] \in {"fix", "check"}

\* the first caller calls instance 1, every other caller either instance
CallsInit ==
    /\ ValidatorIdle
    /\ RetrieverIdle
    /\ SchemaIdle
    /\ WorkflowIdle
    /\ OverlapIdle
    /\ error_fixes_of = [e \in Engines |-> error_fixes]
    /\ call_engine \in {f \in [Callers -> Engines] : f[1] = 1}
    /\ call_query \in [Callers -> CallInputs]
    /\ call_pc = [t \in Callers |-> "call"]
    /\ call_i = [t \in Callers |-> 1]
    /\ call_fixed = [t \in Callers |-> ""]
    /\ call_result = [t \in Callers |-> NoResult]
    /\ overlap = FALSE

\* lines 105-106 for caller t
CallReject(t) ==
    /\ call_pc[t] = "call"
    /\ InvalidInput(call_query[t])
    /\ call_result' = [call_result EXCEPT ![t] = RejectResult(call_query[t])]
    /\ call_pc' = [call_pc EXCEPT ![t] = "done"]
    /\ overlap' = (overlap \/ OthersUnderWay(t))
    /\ UNCHANGED <<error_fixes_of, call_engine, call_query, call_i, call_fixed>>
    /\ UNCHANGED <<validator_vars, retriever_vars, schema_vars, workflow_vars, overlap_vars>>

\* lines 108-109 for caller t
CallEnter(t) ==
    /\ call_pc[t] = "call"
    /\ ~InvalidInput(call_query[t])
    /\ call_fixed' = [call_fixed EXCEPT ![t] = call_query[t].val]
    /\ call_pc' = [call_pc EXCEPT ![t] = "fix"]
    /\ overlap' = (overlap \/ OthersUnderWay(t))
    /\ UNCHANGED <<error_fixes_of, call_engine, call_query, call_i, call_result>>
    /\ UNCHANGED <<validator_vars, retriever_vars, schema_vars, workflow_vars, overlap_vars>>

\* lines 112-121 for caller t: one iteration of the loop over the
\* error_fixes of the instance called
CallApply(t) ==
    /\ call_pc[t] = "fix"
    /\ call_i[t] <= Len(error_fixes_of[call_engine[t]])
    /\ call_fixed' =
          [call_fixed EXCEPT
             ![t] = ApplyFix(error_fixes_of[call_engine[t]][call_i[t]],
                             LocalText(call_fixed, t))]
    /\ call_i' = [call_i EXCEPT ![t] = @ + 1]
    /\ call_pc' =
          [call_pc EXCEPT
             ![t] = IF call_i[t] = Len(error_fixes_of[call_engine[t]])
                    THEN "check" ELSE "fix"]
    /\ overlap' = (overlap \/ OthersUnderWay(t))
    /\ UNCHANGED <<error_fixes_of, call_engine, call_query, call_result>>
    /\ UNCHANGED <<validator_vars, retriever_vars, schema_vars, workflow_vars, overlap_vars>>

\* lines 123-139 for caller t
CallFinish(t) ==
    /\ call_pc[t] = "check"
    /\ call_result' =
          [call_result EXCEPT ![t] = FixResult(LocalText(call_fixed, t))]
    /\ error_fixes_of' =
          [error_fixes_of EXCEPT ![call_engine[t]] = TableAfterCall(@)]
    /\ call_pc' = [call_pc EXCEPT ![t] = "done"]
    /\ overlap' = (overlap \/ OthersUnderWay(t))
    /\ UNCHANGED <<call_engine, call_query, call_i, call_fixed>>
    /\ UNCHANGED <<validator_vars, retriever_vars, schema_vars, workflow_vars, overlap_vars>>

CallsNext ==
    \E t \in Callers :
        CallReject(t) \/ CallEnter(t) \/ CallApply(t) \/ CallFinish(t)

CallsSpec == CallsInit /\ [][CallsNext]_vars

(* ------------- SchemaManager and GraphRAGAgent.refresh_schema ---------- *)
\* a frame of the call stack
Frame(fn, force_refresh, at) ==
    [fn |-> fn, force_refresh |-> force_refresh, at |-> at]

\* the running call and its position
Top == frames[Len(frames)]
Running(fn) == raised = "None" /\ frames # <<>> /\ Top.fn = fn

\* the caller's frame moves to position at and the callee's frame is
\* pushed; the interpreter raises RecursionError when the stack is full
CallFrom(at, fn, force_refresh) ==
    /\ IF Len(frames) < RecursionLimit
       THEN /\ frames' = Append([frames EXCEPT ![Len(frames)].at = at],
                                Frame(fn, force_refresh, "start"))
            /\ raised' = "None"
       ELSE /\ frames' = frames
            /\ raised' = "RecursionError"
    /\ returned' = "NoValue"

\* return value
Return(value) ==
    /\ frames' = SubSeq(frames, 1, Len(frames) - 1)
    /\ returned' = value
    /\ raised' = "None"

\* raise exception
Raise(exception) ==
    /\ frames' = frames
    /\ returned' = "NoValue"
    /\ raised' = exception

\* an entry point is called from outside
Enterable == frames = <<>> /\ raised = "None"

\* schema/manager.py lines 74-102
get_schema ==
    /\ Running("get_schema")
    /\ IF Top.at = "start"
       THEN IF ~Top.force_refresh /\ schema_cache["schema"] # "None"
            THEN \* lines 85-89
                 /\ schema' = schema_cache["schema"]
                 /\ Return(schema_cache["schema"])
                 /\ UNCHANGED schema_cache
            ELSE IF loader = "raises"
            THEN \* line 92, load_schema raises
                 /\ Raise("LoaderError")
                 /\ UNCHANGED <<schema, schema_cache>>
            ELSE \* lines 92-102
                 /\ schema' = "fresh"
                 /\ schema_cache' = [schema_cache EXCEPT !["schema"] = "fresh"]
                 /\ IF Top.force_refresh
                    THEN CallFrom("context", "_load_rich_context", TRUE)
                    ELSE Return("fresh")
       ELSE IF Top.at = "context"
       THEN \* line 100
            /\ CallFrom("examples", "_generate_examples", TRUE)
            /\ UNCHANGED <<schema, schema_cache>>
       ELSE \* line 102
            /\ Return(schema)
            /\ UNCHANGED <<schema, schema_cache>>
    /\ UNCHANGED <<rich_context, example_repository, llm_client, loader,
                   called, api_result>>
    /\ UNCHANGED <<validator_vars, retriever_vars, caller_vars, workflow_vars, overlap_vars>>

\* schema/manager.py lines 139-171
_load_rich_context ==
    /\ Running("_load_rich_context")
    /\ IF Top.at = "start"
       THEN IF ~Top.force_refresh /\ schema_cache["rich_context"] # "None"
            THEN \* lines 150-154
                 /\ rich_context' = schema_cache["rich_context"]
                 /\ Return(schema_cache["rich_context"])
                 /\ UNCHANGED schema_cache
            ELSE \* line 157
                 /\ CallFrom("schema", "get_schema", Top.force_refresh)
                 /\ UNCHANGED <<rich_context, schema_cache>>
       ELSE \* lines 162-171
            /\ rich_context' = "context"
            /\ schema_cache' =
                   [schema_cache EXCEPT !["rich_context"] = "context"]
            /\ Return("context")
    /\ UNCHANGED <<schema, example_repository, llm_client, loader, called,
                   api_result>>
    /\ UNCHANGED <<validator_vars, retriever_vars, caller_vars, workflow_vars, overlap_vars>>

\* schema/manager.py lines 173-226
_generate_examples ==
    /\ Running("_generate_examples")
    /\ IF Top.at = "start"
       THEN \* lines 184-189
            /\ IF ~llm_client
               THEN Return("[]")
               ELSE CallFrom("schema", "get_schema", Top.force_refresh)
            /\ UNCHANGED example_repository
       ELSE IF Top.at = "schema"
       THEN \* line 190
            /\ CallFrom("context", "_load_rich_context", Top.force_refresh)
            /\ UNCHANGED example_repository
       ELSE \* lines 192-226: the generator gives examples or raises
            \E generated \in BOOLEAN :
               IF generated
               THEN /\ example_repository' = "[examples]"
                    /\ Return("[examples]")
               ELSE /\ Return("[]")
                    /\ UNCHANGED example_repository
    /\ UNCHANGED <<schema, rich_context, schema_cache, llm_client, loader,
                   called, api_result>>
    /\ UNCHANGED <<validator_vars, retriever_vars, caller_vars, workflow_vars, overlap_vars>>

\* schema/manager.py lines 104-118
get_formatted_schema ==
    /\ \/ /\ Enterable
          /\ \E force_refresh \in BOOLEAN :
                frames' = <<Frame("get_formatted_schema", force_refresh,
                                  "schema"),
                            Frame("get_schema", force_refresh, "start")>>
          /\ called' = "get_formatted_schema"
          /\ api_result' = "None"
          /\ returned' = "NoValue"
       \/ /\ Running("get_formatted_schema")
          /\ frames' = <<>>
          /\ api_result' = "formatted"
          /\ returned' = "NoValue"
          /\ UNCHANGED called
    /\ UNCHANGED <<schema, rich_context, schema_cache, example_repository,
                   llm_client, loader, raised>>
    /\ UNCHANGED <<validator_vars, retriever_vars, caller_vars, workflow_vars, overlap_vars>>

\* schema/manager.py lines 120-137
get_examples ==
    /\ \/ /\ Enterable
          /\ \E force_refresh \in BOOLEAN :
                IF ~force_refresh /\ example_repository # "[]"
                THEN /\ api_result' = example_repository
                     /\ UNCHANGED frames
                ELSE /\ api_result' = "None"
                     /\ frames' = <<Frame("get_examples", force_refresh,
                                          "generate"),
                                    Frame("_generate_examples", force_refresh,
                                          "start")>>
          /\ called' = "get_examples"
          /\ returned' = "NoValue"
       \/ /\ Running("get_examples")
          /\ frames' = <<>>
          /\ api_result' = returned
          /\ returned' = "NoValue"
          /\ UNCHANGED called
    /\ UNCHANGED <<schema, rich_context, schema_cache, example_repository,
                   llm_client, loader, raised>>
    /\ UNCHANGED <<validator_vars, retriever_vars, caller_vars, workflow_vars, overlap_vars>>

\* agents/rag_orchestrator.py lines 197-212
refresh_schema ==
    /\ \/ \* lines 204-207
          /\ Enterable
          /\ frames' = <<Frame("refresh_schema", TRUE, "try"),
                         Frame("get_schema", TRUE, "start")>>
          /\ called' = "refresh_schema"
          /\ api_result' = "None"
          /\ UNCHANGED raised
       \/ \* lines 208-212: True when the call returned, False when it
          \* raised
          /\ frames # <<>>
          /\ Top.fn = "refresh_schema"
          /\ frames' = <<>>
          /\ api_result' = IF raised = "None" THEN "True" ELSE "False"
          /\ raised' = "None"
          /\ UNCHANGED called
    /\ returned' = "NoValue"
    /\ UNCHANGED <<schema, rich_context, schema_cache, example_repository,
                   llm_client, loader>>
    /\ UNCHANGED <<validator_vars, retriever_vars, caller_vars, workflow_vars, overlap_vars>>

\* an exception leaves a frame that has no handler for it; out of the last
\* frame it reaches the caller of the entry point
Unwind ==
    /\ raised # "None"
    /\ frames # <<>>
    /\ Top.fn # "refresh_schema"
    /\ frames' = SubSeq(frames, 1, Len(frames) - 1)
    /\ IF Len(frames) = 1
       THEN api_result' = raised /\ raised' = "None"
       ELSE UNCHANGED <<api_result, raised>>
    /\ UNCHANGED <<schema, rich_context, schema_cache, example_repository,
                   llm_client, loader, returned, called>>
    /\ UNCHANGED <<validator_vars, retriever_vars, caller_vars, workflow_vars, overlap_vars>>

\* a schema manager with what its cache files and its repository hold
SchemaInit ==
    /\ ValidatorIdle
    /\ RetrieverIdle
    /\ CallersIdle
    /\ WorkflowIdle
    /\ OverlapIdle
    /\ schema = "None"
    /\ rich_context = "None"
    /\ schema_cache \in [{"schema", "rich_context"} -> {"None", "stale"}]
    /\ example_repository \in {"[]", "[examples]"}
    /\ llm_client \in BOOLEAN
    /\ loader \in {"ok", "raises"}
    /\ frames = <<>>
    /\ returned = "NoValue"
    /\ raised = "None"
    /\ called = "None"
    /\ api_result = "None"

SchemaNext ==
    \/ get_schema
    \/ _load_rich_context
    \/ _generate_examples
    \/ get_formatted_schema
    \/ get_examples
    \/ refresh_schema
    \/ Unwind

SchemaSpec == SchemaInit /\ [][SchemaNext]_vars

(* ----------------------- WorkflowManager.run_pipeline ------------------ *)
\* what an agent's execute does with the data it is given
Behaviours == {"result", "dated", "empty", "raises"}

\* an agent: its name and what its execute does
AgentObjects == [name : AgentNames, behaviour : Behaviours]

\* the dict is empty (falsy)
EmptyDict == Dict(0, "empty", "None", FALSE)

\* the value agent.execute returns (line 138): a non-empty dict of its
\* own, one that also holds a datetime, or an empty dict
execute(agent) ==
    IF added[agent].behaviour = "result" THEN Dict(agent, "str", "None", FALSE)
    ELSE IF added[agent].behaviour = "dated"
    THEN Dict(agent, "datetime", "None", FALSE)
    ELSE EmptyDict

\* lines 139-140: result after agent_result = agent.execute(result, context)
NextResult_Always(previous, agent_result) == agent_result
NextResult(previous, agent_result) ==
    IF agent_result.payload # "empty" THEN agent_result ELSE previous

\* lines 146-148: result after agent.execute raised
WithError(previous, agent_name) ==
    [previous EXCEPT !.error_agent = agent_name]

\* lines 17-29: a datetime becomes its ISO text, str values stay
make_serializable(obj) ==
    [obj EXCEPT !.payload = IF @ = "datetime" THEN "isoformat" ELSE @]

\* lines 51-66
add_agent ==
    /\ wpc = "build"
    /\ Len(added) < MaxAgents
    /\ \E agent \in AgentObjects :
          /\ added' = Append(added, agent)
          /\ agents' = [agents EXCEPT ![agent.name] = Len(added) + 1]
          /\ agent_pipeline' =
                 IF \E k \in 1..Len(agent_pipeline) :
                        agent_pipeline[k] = agent.name
                 THEN agent_pipeline
                 ELSE Append(agent_pipeline, agent.name)
    /\ UNCHANGED <<wpc, agent_index, pipeline_result, calls,
                   serializable_result>>
    /\ UNCHANGED <<validator_vars, retriever_vars, caller_vars, schema_vars, overlap_vars>>

\* lines 116-128: no hook is registered
run_pipeline ==
    /\ wpc = "build"
    /\ wpc' = "run"
    /\ pipeline_result' = input_data
    /\ agent_index' = 1
    /\ UNCHANGED <<agents, agent_pipeline, added, calls, serializable_result>>
    /\ UNCHANGED <<validator_vars, retriever_vars, caller_vars, schema_vars, overlap_vars>>

\* lines 131-150: one turn of the loop; every name of agent_pipeline is a
\* key of agents
RunAgent ==
    /\ wpc = "run"
    /\ agent_index <= Len(agent_pipeline)
    /\ calls' = Append(calls, [agent |-> agents[agent_pipeline[agent_index]],
                               data |-> pipeline_result])
    /\ pipeline_result' =
           IF added[agents[agent_pipeline[agent_index]]].behaviour = "raises"
           THEN WithError(pipeline_result, agent_pipeline[agent_index])
           ELSE NextResult(pipeline_result,
                           execute(agents[agent_pipeline[agent_index]]))
    /\ agent_index' = agent_index + 1
    /\ UNCHANGED <<agents, agent_pipeline, added, wpc, serializable_result>>
    /\ UNCHANGED <<validator_vars, retriever_vars, caller_vars, schema_vars, overlap_vars>>

\* lines 152-166
FinishPipeline ==
    /\ wpc = "run"
    /\ agent_index > Len(agent_pipeline)
    /\ pipeline_result' = [pipeline_result EXCEPT !.processing_time = TRUE]
    /\ serializable_result' = make_serializable(pipeline_result')
    /\ wpc' = "done"
    /\ UNCHANGED <<agents, agent_pipeline, added, agent_index, calls>>
    /\ UNCHANGED <<validator_vars, retriever_vars, caller_vars, schema_vars, overlap_vars>>

\* a workflow manager as constructed, before any agent is added
WorkflowInit ==
    /\ ValidatorIdle
    /\ RetrieverIdle
    /\ CallersIdle
    /\ SchemaIdle
    /\ OverlapIdle
    /\ agents = [name \in AgentNames |-> 0]
    /\ agent_pipeline = <<>>
    /\ added = <<>>
    /\ wpc = "build"
    /\ agent_index = 1
    /\ pipeline_result = NoDict
    /\ calls = <<>>
    /\ serializable_result = NoDict

WorkflowNext == add_agent \/ run_pipeline \/ RunAgent \/ FinishPipeline

WorkflowSpec == WorkflowInit /\ [][WorkflowNext]_vars

\* ---------------------------------------------------------------------------
\* Two process calls under way on one GraphRetrieverAgent: the endpoints
\* (api/endpoints.py, lines 59-101) hand every request to the one module-level
\* agent, whose retriever keeps the connection in self.graph_db.  Each call
\* has a plan of queries with a cypher; a step is one statement on
\* self.graph_db, and the statements of the two calls interleave.
\* ---------------------------------------------------------------------------

OverlapInit ==
    /\ ValidatorIdle
    /\ RetrieverIdle
    /\ CallersIdle
    /\ SchemaIdle
    /\ WorkflowIdle
    /\ shared_graph_db = 0
    /\ strategies = <<>>
    /\ proc_pc = [t \in ProcessCalls |-> "start"]
    /\ proc_plan \in [ProcessCalls -> 1..MaxPlan]
    /\ proc_item = [t \in ProcessCalls |-> 1]
    /\ proc_db = [t \in ProcessCalls |-> 0]
    /\ proc_ran = [t \in ProcessCalls |-> <<>>]
    /\ proc_response = [t \in ProcessCalls |-> "None"]

\* line 58: self.graph_db = GraphDatabaseFactory.create_graph_database_strategy()
CreateStrategy(t) ==
    /\ proc_pc[t] = "start"
    /\ strategies' = Append(strategies, "created")
    /\ shared_graph_db' = Len(strategies) + 1
    /\ proc_db' = [proc_db EXCEPT ![t] = Len(strategies) + 1]
    /\ proc_pc' = [proc_pc EXCEPT ![t] = "connect"]
    /\ UNCHANGED <<proc_plan, proc_item, proc_ran, proc_response>>
    /\ UNCHANGED <<validator_vars, retriever_vars, caller_vars, schema_vars,
                   workflow_vars>>

\* line 61: self.graph_db.connect() (the store is there: connect() answers
\* True); when self.graph_db is None by now, the AttributeError is caught at
\* lines 222-230, where close_database finds nothing to close
Connect(t) ==
    /\ proc_pc[t] = "connect"
    /\ IF shared_graph_db = 0
       THEN /\ proc_pc' = [proc_pc EXCEPT ![t] = "done"]
            /\ proc_response' = [proc_response EXCEPT ![t] = "error"]
            /\ UNCHANGED strategies
       ELSE /\ strategies' = [strategies EXCEPT ![shared_graph_db] = "open"]
            /\ proc_pc' = [proc_pc EXCEPT ![t] = "loop"]
            /\ UNCHANGED proc_response
    /\ UNCHANGED <<shared_graph_db, proc_plan, proc_item, proc_db, proc_ran>>
    /\ UNCHANGED <<validator_vars, retriever_vars, caller_vars, schema_vars,
                   workflow_vars>>

\* line 174: self.graph_db.execute_query(fixed_cypher), on whatever
\* self.graph_db is by now; on None the AttributeError is caught at lines
\* 189-197 and the loop goes on
ExecuteQuery(t) ==
    /\ proc_pc[t] = "loop"
    /\ proc_item[t] <= proc_plan[t]
    /\ proc_ran' =
          [proc_ran EXCEPT ![t] =
              Append(@, [on |-> shared_graph_db,
                         state |-> IF shared_graph_db = 0 THEN "None"
                                   ELSE strategies[shared_graph_db]])]
    /\ proc_item' = [proc_item EXCEPT ![t] = @ + 1]
    /\ UNCHANGED <<shared_graph_db, strategies, proc_pc, proc_plan, proc_db,
                   proc_response>>
    /\ UNCHANGED <<validator_vars, retriever_vars, caller_vars, schema_vars,
                   workflow_vars>>

\* lines 213-220 with close_database (lines 89-94): close whatever
\* self.graph_db is by now, set it to None, return
CloseAndReturn(t) ==
    /\ proc_pc[t] = "loop"
    /\ proc_item[t] > proc_plan[t]
    /\ strategies' =
          IF shared_graph_db = 0 THEN strategies
          ELSE [strategies EXCEPT ![shared_graph_db] = "closed"]
    /\ shared_graph_db' = 0
    /\ proc_pc' = [proc_pc EXCEPT ![t] = "done"]
    /\ proc_response' = [proc_response EXCEPT ![t] = "ok"]
    /\ UNCHANGED <<proc_plan, proc_item, proc_db, proc_ran>>
    /\ UNCHANGED <<validator_vars, retriever_vars, caller_vars, schema_vars,
                   workflow_vars>>

OverlapNext ==
    \E t \in ProcessCalls :
        CreateStrategy(t) \/ Connect(t) \/ ExecuteQuery(t) \/ CloseAndReturn(t)

OverlapSpec == OverlapInit /\ [][OverlapNext]_vars

(* --------------------- vocabulary of the properties -------------------- *)
Returned == pc = "done"
IsNonEmptyString(q) == q.type = "str" /\ q.val # ""
\* the call returned after running the rules on a string
Fixed == Returned /\ IsNonEmptyString(query)
Input == query.val
Output == result.fixed_query.val

\* s.strip()
RECURSIVE TrailingLen(_, _)
TrailingLen(s, n) ==
    IF n > 0 /\ At(s, n - 1) \in Whitespace THEN 1 + TrailingLen(s, n - 1) ELSE 0
Strip(s) ==
    LET a == RunLen(s, 0, Whitespace)
    IN  IF a = Len(s) THEN "" ELSE Slice(s, a, Len(s) - TrailingLen(s, Len(s)))

\* the text before the first WHERE, and the text from it on
MatchClause(s) ==
    LET w == Find(s, "WHERE", 0) IN IF w < 0 THEN s ELSE Slice(s, 0, w)
WherePart(s) ==
    LET w == Find(s, "WHERE", 0) IN IF w < 0 THEN "" ELSE Slice(s, w, Len(s))

RelVars == {"r", "rel"}
RelTypes == {"T", "T*"}

\* A query with none of the seven anti-patterns: at most one WHERE, no
\* anonymous relationship, every relationship variable referenced in WHERE
\* declared in MATCH, balanced parentheses, no node without a variable, no
\* condition joined to a copy of itself.
CleanQuery(s) ==
    /\ Count(s, "WHERE") <= 1
    /\ ~Contains(s, "[:")
    /\ \A v \in RelVars :
          Contains(WherePart(s), " " \o v \o ".")
              => Contains(MatchClause(s), "-[" \o v \o ":")
    /\ Count(s, "(") = Count(s, ")")
    /\ ~Contains(s, "(:")
    /\ ~Contains(s, " AND (")

\* every match of ms replaced at once by its own replacement, the text of s
\* outside the matches kept
RECURSIVE ReplaceAllFrom(_, _, _, _, _)
ReplaceAllFrom(pat, s, ms, k, pos) ==
    IF k > Len(ms) THEN Slice(s, pos, Len(s))
    ELSE Slice(s, pos, ms[k].start) \o CallReplacement(pat, ms[k])
         \o ReplaceAllFrom(pat, s, ms, k + 1, ms[k].end)
ReplaceAll(pat, s, ms) == ReplaceAllFrom(pat, s, ms, 1, 0)

\* rule n applied once to the whole of s, and rules 1..n one after the other,
\* each on the text the one before it produced
RuleTextOf(n, s, ms) ==
    IF n \in {3, 4, 7} THEN ReplaceAll(n, s, ms) ELSE Sub(n, s, ms)
RuleText(n, s) == RuleTextOf(n, s, FindIter(n, s, 0))
RECURSIVE RulesUpTo(_, _)
RulesUpTo(n, s) == IF n = 0 THEN s ELSE RuleText(n, RulesUpTo(n - 1, s))
\* the order of the rules, then the issue check (0)
Schedule == <<1, 2, 3, 4, 5, 6, 7, 0>>

\* the message names the issue txt
MessageHas(txt) ==
    result.message.type = "str" /\ Contains(result.message.val, txt)

\* the identifiers of the generated queries
Identifiers == {"a", "b", "c", "n", "r", "rel"}
\* a WHERE clause of s references a property of v
WhereReferences(s, v) ==
    \E p \in 1..Len(s) :
        /\ StartsAt(s, v \o ".", p)
        /\ At(s, p - 1) \notin WordChars
        /\ At(s, p + Len(v) + 1) \in WordChars
        /\ Find(s, "WHERE", 0) >= 0
        /\ Find(s, "WHERE", 0) < p
\* a relationship pattern of s declares v
Declares(s, v) == Contains(s, "[" \o v \o ":")

\* the number of MATCH keywords of s, and whether s has a WHERE keyword
Keywords(s, kw) ==
    {p \in 0..Len(s) : /\ StartsAt(s, kw, p)
                       /\ At(s, p - 1) \notin WordChars
                       /\ At(s, p + Len(kw)) \notin WordChars}
MatchClauses(s) == Cardinality(Keywords(s, "MATCH"))
HasWhereClause(s) == Keywords(s, "WHERE") # {}

\* offset p of s is inside a relationship pattern [...]
InPattern(s, p) ==
    /\ \E a \in 0..(p - 1) :
          At(s, a) = "[" /\ \A k \in (a + 1)..(p - 1) : At(s, k) # "]"
    /\ \E c \in (p + 1)..Len(s) :
          At(s, c) = "]" /\ \A k \in (p + 1)..(c - 1) : At(s, k) # "["
\* a '*' of a relationship pattern at p that no lower bound *N.. follows
UnboundedAt(s, p) ==
    /\ At(s, p) = "*"
    /\ InPattern(s, p)
    /\ ~(/\ RunLen(s, p + 1, Digits) >= 1
          /\ StartsAt(s, "..", p + 1 + RunLen(s, p + 1, Digits)))

\* the items with a non-empty cypher among the first n of the plan
RECURSIVE NonEmptyItems(_)
NonEmptyItems(n) ==
    IF n = 0 THEN <<>>
    ELSE IF Truthy(query_plan[n].cypher)
         THEN Append(NonEmptyItems(n - 1), query_plan[n])
         ELSE NonEmptyItems(n - 1)
\* the number of items the loop of process has reached
ItemsReached ==
    IF rpc = "execute" THEN item
    ELSE IF rpc \in {"start", "idle"} THEN 0 ELSE item - 1
Fallbacks == {Str("MATCH (n:Table) RETURN n LIMIT 25"),
              Str("MATCH (n) RETURN n LIMIT 25")}

\* what one call alone returns for each argument
SequentialResults == [q \in CallInputs |-> validate_and_fix(q)]
\* the rule table every instance is constructed with
ConstructedTables == [e \in Engines |-> error_fixes]

ExpectedReject ==
    [fixed_query |-> query, is_valid |-> FALSE,
     message |-> Str("Invalid query: Query must be a non-empty string")]

(* ------------------------------ claims --------------------------------- *)

\* C1: validate_and_fix returns is_valid = false if and only if the input is
\* not a non-empty string; every non-empty string gets is_valid = true.
C1_ValidIffNonEmptyString ==
    Returned => (result.is_valid <=> IsNonEmptyString(query))

\* a malformed query was repaired, issues were found, and it is still valid
C1_Witness ==
    /\ Fixed
    /\ result.is_valid
    /\ result.message # None
    /\ Output # Input

\* C2: for an empty or non-string input the call returns (input, false,
\* "Invalid query: Query must be a non-empty string") with the input
\* unchanged, and runs no rewrite rule and no heuristic check.
C2_RejectLeavesInputUnchanged ==
    ~IsNonEmptyString(query) =>
        /\ pc \in {"call", "done"}
        /\ applied = <<>>
        /\ log = <<>>
        /\ fixed_query = ""
        /\ Returned => result = ExpectedReject

\* a non-string input was rejected
C2_Witness ==
    /\ Returned
    /\ query.type # "str"
    /\ ~result.is_valid

\* C3: a query with none of the seven anti-patterns comes back as
\* (q, true, null), its text unchanged character for character.
C3_CleanQueryReturnedUnchanged ==
    (Fixed /\ CleanQuery(Input)) =>
        result = [fixed_query |-> query, is_valid |-> TRUE, message |-> None]

\* C4: a query MATCH (a)-[v:T]->(b) WHERE v.x ... whose relationship variable
\* is declared comes back unchanged up to surrounding whitespace, with a null
\* message, with WHERE on the MATCH line or on the next line.
C4_DeclaredRelationshipVarUnchanged ==
    (/\ Fixed
     /\ CleanQuery(Input)
     /\ StartsAt(Input, "MATCH (a)-[", 0)
     /\ \E v \in RelVars : /\ Contains(MatchClause(Input), "-[" \o v \o ":")
                           /\ Contains(Input, "WHERE " \o v \o "."))
    => (Strip(Output) = Strip(Input) /\ result.message = None)

\* C5: when WHERE references v.prop (and no other relationship variable) and
\* the MATCH clause has the anonymous relationship [:T], the fixed query has
\* [v:T], for v = r and for v = rel.
C5_AnonymousRelationshipGetsFilterVar ==
    Fixed =>
        \A v \in RelVars :
            (/\ Contains(MatchClause(Input), "-[:T]->")
             /\ Contains(Input, "WHERE " \o v \o ".")
             /\ \A u \in RelVars \ {v} : ~Contains(Input, " " \o u \o "."))
            => Contains(Output, "-[" \o v \o ":T]->")

\* C6: for '... WHERE c1 WHERE c2 ...' (two WHERE, c1 and c2 different
\* property comparisons, the second WHERE on the same or on the next line) the
\* fixed query contains 'WHERE c1 AND c2' and no 'WHERE c2'.
C6_SecondWhereFolded ==
    (Fixed /\ Count(Input, "WHERE") = 2) =>
        \A c1 \in SimpleConds, c2 \in SimpleConds, sep \in Seps :
            (c1 # c2 /\ Contains(Input, "WHERE " \o c1 \o sep \o "WHERE " \o c2))
            => /\ Contains(Output, "WHERE " \o c1 \o " AND " \o c2)
               /\ ~Contains(Output, "WHERE " \o c2)

\* C7: an input containing the anonymous relationship -[:T]-> has -[r:T]-> in
\* the fixed query, whatever later rules fire.
C7_AnonymousRelationshipAliased ==
    Fixed =>
        \A t \in RelTypes :
            Contains(Input, "-[:" \o t \o "]->")
                => Contains(Output, "-[r:" \o t \o "]->")

\* C8: a WHERE clause asserting (a)-[:T]->(b) twice keeps exactly one
\* assertion, with node a, the typed relationship and node b in parentheses,
\* and no 'AND (a)-[...' is left.
C8_DuplicateConditionKeptOnce ==
    (Fixed /\ Count(Input, DuplicatedCond) = 1) =>
        /\ Count(WherePart(Output), "(a)-[r:T]->(b)")
             + Count(WherePart(Output), "(a)-[:T]->(b)") = 1
        /\ ~Contains(Output, "AND (a)-[")

\* C9: an input with more '(' than ')' in its tail comes back with equal
\* numbers of '(' and ')', for a deficit of one and of two or more.
C9_ParenthesesBalanced ==
    (Fixed /\ Count(Input, "(") > Count(Input, ")")) =>
        Count(Output, "(") = Count(Output, ")")

\* C10: rule 5 inserts n only for a first node with a label and no variable:
\* MATCH path = (:L) becomes MATCH path = (n:L), and MATCH path = (c:L) keeps
\* its text.
C10_PathAliasOnlyWhenVariableMissing ==
    Fixed =>
        /\ Contains(Input, "MATCH path = (c:L)")
              => Contains(Output, "MATCH path = (c:L)")
        /\ Contains(Input, "MATCH path = (:L)")
              => Contains(Output, "MATCH path = (n:L)")

\* C11: rule 3 is a pass-through: the text after rule 3 equals the text before
\* it, whether or not an <ident>.<ident> token names a relationship (a
\* matching token is re-emitted with the whitespace that followed it).
C11_RuleThreePassThrough ==
    [][(pc = "fix" /\ i = 3) => fixed_query' = fixed_query]_vars

\* C12: for a rule with a replacement function, splicing the replacements in
\* from the last match of the upfront scan to the first gives the text in
\* which every match is replaced at once by its own replacement and the rest
\* is unchanged, for any number of matches and replacements of any length.
C12_ReversedSpliceIsSimultaneous ==
    [][(pc = "fix" /\ error_fixes[i].callable)
          => fixed_query' = ReplaceAll(error_fixes[i].pattern, fixed_query,
                                       matches')]_vars

\* rule 3 has replaced three matches and two of the replacements are shorter
\* than their matches
C12_Witness ==
    /\ pc = "fix"
    /\ i = 4
    /\ Len(matches) = 3
    /\ fixed_query = ReplaceAll(3, original_query, matches)
    /\ Len(fixed_query) = Len(original_query) - 2

\* C13: within one call the rules run in the order 1, 2, 3, 4, 5, 6, 7, each
\* exactly once and on the text the previous rule produced; no rule runs
\* again after a later rule has changed the text.
C13_RulesOnceInFixedOrder ==
    /\ [](applied = SubSeq(Schedule, 1, Len(applied)))
    /\ [][/\ pc = "fix" => /\ applied = SubSeq(Schedule, 1, i - 1)
                            /\ applied' = Append(applied, i)
                            /\ fixed_query' = RuleText(i, fixed_query)
                            /\ pc' = IF i = 7 THEN "check" ELSE "fix"
          /\ pc = "check" => /\ applied' = Schedule
                              /\ fixed_query' = fixed_query]_vars

\* a call in which rules 1, 2 and 7 each changed the text has returned
C13_Witness ==
    /\ Fixed
    /\ applied = Schedule
    /\ Count(Input, "WHERE") = 2
    /\ Contains(Input, "-[:T]->")
    /\ Contains(Input, "WHERE r.x = 1 WHERE a.x = 1")
    /\ RulesUpTo(1, Input) # Input
    /\ RulesUpTo(2, Input) # RulesUpTo(1, Input)
    /\ RulesUpTo(7, Input) # RulesUpTo(6, Input)

\* C14: the issue check runs once, after the seven rules, and leaves the query
\* alone: the returned text is the text the last rule produced whether or not
\* issues are found.  The message is null without issues (also after a
\* repair) and otherwise 'Query has potential issues: ' and the descriptions
\* joined by ', '.
C14_IssueCheckOnlyAnnotates ==
    /\ \A k \in 1..Len(applied) : applied[k] = 0 => (k = 8 /\ Returned)
    /\ Fixed =>
          /\ applied[8] = 0
          /\ Output = fixed_query
          /\ _check_known_issues(Output) = <<>> => result.message = None
          /\ _check_known_issues(Output) # <<>> =>
                result.message = Str("Query has potential issues: "
                                     \o Join(_check_known_issues(Output)))

\* a repaired query came back with two issues in its message
C14_Witness ==
    /\ Fixed
    /\ Output # Input
    /\ result.message =
          Str("Query has potential issues: "
              \o "Possible cartesian product (multiple MATCH without WHERE), "
              \o "Unbounded variable-length path may cause performance issues")

\* C15: the message has 'Possible undefined relationship variable' exactly
\* when a WHERE clause of the fixed query references v.prop for an identifier
\* v that no relationship pattern '[v:' of the query declares; declaring
\* another relationship variable does not suppress the finding.
C15_UndefinedVariableReported ==
    Fixed =>
        (MessageHas("Possible undefined relationship variable")
           <=> \E v \in Identifiers :
                  WhereReferences(Output, v) /\ ~Declares(Output, v))

C17_UnboundedPathReported ==
    Fixed =>
        (MessageHas("Unbounded variable-length path")
           <=> \E p \in 0..Len(Output) : UnboundedAt(Output, p))

\* C18: for each plan item with a non-empty cypher, process calls
\* validate_and_fix once, before the execution, and execute_query gets the
\* fixed query of the validator when the cypher is valid (a non-empty string,
\* with or without a diagnostic message) and a fallback query, never the
\* original, when it is not.
C18_ExecutesFixedOrFallback ==
    LET reached == NonEmptyItems(ItemsReached)
    IN  /\ Len(validated) = Len(reached)
        /\ Len(executed) = Len(validated) - (IF rpc = "execute" THEN 1 ELSE 0)
        /\ \A k \in 1..Len(validated) : validated[k] = reached[k].cypher
        /\ \A k \in 1..Len(executed) :
              IF IsNonEmptyString(validated[k])
              THEN executed[k] = Str(RulesUpTo(7, validated[k].val))
              ELSE executed[k] \in Fallbacks /\ executed[k] # validated[k]

\* process returned after executing a fallback for a cypher that is not a
\* string, and a valid query that came with a diagnostic message
C18_Witness ==
    /\ rpc = "done"
    /\ response = "ok"
    /\ Len(executed) = 2
    /\ validated[1] = PyInt("5")
    /\ executed[1] = Str("MATCH (n:Table) RETURN n LIMIT 25")
    /\ validated[2] = Str("MATCH (a) WHERE a.x = 1 RETURN a")
    /\ executed[2] = validated[2]
    /\ retrieved_context[2].kind = "result"
    /\ retrieved_context[2].validation_message # None

\* C19: validate_and_fix is deterministic: two calls with the same input
\* return the same (fixed_query, is_valid, message), in any order relative
\* to other calls and on the same or on different instances, and no call
\* changes state that a later call reads.
C19_SameInputSameResult ==
    /\ \A e \in Engines : error_fixes_of[e] = ConstructedTables[e]
    /\ \A t \in Callers, u \in Callers :
          (/\ call_pc[t] = "done"
           /\ call_pc[u] = "done"
           /\ call_query[t] = call_query[u])
          => call_result[t] = call_result[u]

\* two calls with the same query, one after the other on the same instance,
\* have both returned the repaired query
C19_Witness ==
    /\ call_pc[1] = "done"
    /\ call_pc[2] = "done"
    /\ call_engine[1] = call_engine[2]
    /\ call_query[1] = call_query[2]
    /\ ~overlap
    /\ call_result[1].is_valid
    /\ call_result[1].fixed_query # call_query[1]

\* C20: concurrent calls on one shared instance do not interfere: the rule
\* table is never written after construction, each call works on its own
\* query text, and in every interleaving each caller gets the result a call
\* alone gives.
C20_InterleavedCallsAsSequential ==
    /\ error_fixes_of = ConstructedTables
    /\ \A t \in Callers :
          /\ call_pc[t] = "call" => call_fixed[t] = ""
          /\ call_pc[t] = "done"
                => call_result[t] = SequentialResults[call_query[t]]

\* two calls with different queries on the same instance, their steps
\* interleaved, have both returned a repaired query
C20_Witness ==
    /\ overlap
    /\ call_engine[1] = call_engine[2]
    /\ call_query[1] # call_query[2]
    /\ \A t \in {1, 2} :
          /\ call_pc[t] = "done"
          /\ call_result[t].is_valid
          /\ call_result[t].fixed_query # call_query[t]

\* C21: refresh_schema ends, and when the loader succeeds it returns True
\* with the schema reloaded from the loader and stored in the cache.
C21_RefreshReloadsAndReturnsTrue ==
    (called = "refresh_schema" /\ frames = <<>> /\ loader = "ok")
        => /\ api_result = "True"
           /\ schema = "fresh"
           /\ schema_cache["schema"] = "fresh"

\* the agent whose execute was the k-th call, and what it did
Called(k) == added[calls[k].agent]

\* the last of the first k calls that returned a non-empty result, 0 if none
LatestResult(k) ==
    IF \E j \in 1..k : Called(j).behaviour \in {"result", "dated"}
    THEN CHOOSE j \in 1..k :
             /\ Called(j).behaviour \in {"result", "dated"}
             /\ \A m \in (j + 1)..k : Called(m).behaviour \notin {"result", "dated"}
    ELSE 0

\* the name of the last agent that raised among the calls after call j up
\* to call k, "None" if none did
LatestError(j, k) ==
    IF \E m \in (j + 1)..k : Called(m).behaviour = "raises"
    THEN Called(CHOOSE m \in (j + 1)..k :
                    /\ Called(m).behaviour = "raises"
                    /\ \A n \in (m + 1)..k : Called(n).behaviour # "raises").name
    ELSE "None"

\* the names in the order in which they were first added
RECURSIVE FirstAdded(_)
FirstAdded(n) ==
    IF n = 0 THEN <<>>
    ELSE IF \E k \in 1..(n - 1) : added[k].name = added[n].name
         THEN FirstAdded(n - 1)
         ELSE Append(FirstAdded(n - 1), added[n].name)

\* the agent added last under a name
LastAdded(name) ==
    CHOOSE k \in 1..Len(added) :
        /\ added[k].name = name
        /\ \A m \in (k + 1)..Len(added) : added[m].name # name

\* C22 as stated: the agents run in the order added, each once; the first
\* gets the input data, every later one the non-empty result of the agent
\* before it, and the last agent's output is returned.
C22_EachAgentGetsPreviousOutput ==
    wpc = "done" =>
        /\ Len(calls) = Len(added)
        /\ \A k \in 1..Len(calls) :
               /\ calls[k].agent = k
               /\ calls[k].data.step = k - 1
               /\ calls[k].data.payload # "empty"
               /\ calls[k].data.error_agent = "None"
        /\ serializable_result.step = Len(calls)

\* C22 amended: the agents run once each in the order in which their names
\* were first added, an agent added again under a name taking the place of
\* the earlier one, also after an agent raised; each gets the latest
\* non-empty result returned so far (the input data if there is none), with
\* the error of the last agent that raised since; the returned value is the
\* serializable copy of that result after the last agent, with
\* processing_time.
C22_PipelineCarriesLatestResult ==
    wpc = "done" =>
        /\ Len(calls) = Len(FirstAdded(Len(added)))
        /\ \A k \in 1..Len(calls) :
               /\ calls[k].agent = LastAdded(FirstAdded(Len(added))[k])
               /\ calls[k].data.step =
                      IF LatestResult(k - 1) = 0 THEN 0
                      ELSE calls[LatestResult(k - 1)].agent
               /\ calls[k].data.payload \in {"str", "datetime"}
               /\ calls[k].data.error_agent =
                      LatestError(LatestResult(k - 1), k - 1)
               /\ ~calls[k].data.processing_time
        /\ serializable_result.step =
               IF LatestResult(Len(calls)) = 0 THEN 0
               ELSE calls[LatestResult(Len(calls))].agent
        /\ serializable_result.payload \in {"str", "isoformat"}
        /\ serializable_result.error_agent =
               LatestError(LatestResult(Len(calls)), Len(calls))
        /\ serializable_result.processing_time

\* three agents were run: the first raised, the second returned an empty
\* result, the third a result with a datetime
C22_Witness ==
    /\ wpc = "done"
    /\ Len(calls) = 3
    /\ Called(1).behaviour = "raises"
    /\ Called(2).behaviour = "empty"
    /\ Called(3).behaviour = "dated"
    /\ serializable_result = Dict(calls[3].agent, "isoformat", "None", TRUE)

\* WHERE c1 AND c2 WHERE c3 AND c4 ...: the first n conditions with every
\* second WHERE replaced by AND
RECURSIVE PairwiseFolded(_, _, _)
PairwiseFolded(conds, sep, n) ==
    IF n = 0 THEN "MATCH (a)"
    ELSE IF n % 2 = 1
    THEN PairwiseFolded(conds, sep, n - 1) \o sep \o "WHERE " \o conds[n]
    ELSE PairwiseFolded(conds, sep, n - 1) \o " AND " \o conds[n]

\* C23 as stated: a query with k >= 2 WHERE-introduced conditions in sequence
\* comes back with exactly one WHERE and the k conditions joined by AND.
C23_EveryRepeatedWhereFolded ==
    Fixed =>
        \A conds \in FoldLists, sep \in Seps :
            Input = FoldText(conds, sep, Len(conds)) \o ReturnTail(0)
                => /\ Count(Output, "WHERE") = 1
                   /\ Count(Output, " AND ") = Len(conds) - 1

\* C23 amended: rule 1 folds the WHERE keywords pairwise in its one pass:
\* WHERE c1 WHERE c2 ... WHERE ck becomes WHERE c1 AND c2 WHERE c3 AND c4 ...,
\* every second WHERE replaced by AND, so that (k + 1) / 2 rounded down WHERE
\* keywords are left, one only for k = 2.
C23_RepeatedWhereFoldedPairwise ==
    [][(pc = "fix" /\ i = 1) =>
          \A conds \in FoldLists, sep \in Seps :
              fixed_query = FoldText(conds, sep, Len(conds)) \o ReturnTail(0)
                  => /\ fixed_query' =
                            PairwiseFolded(conds, sep, Len(conds))
                                \o ReturnTail(0)
                     /\ Count(fixed_query', "WHERE") = (Len(conds) + 1) \div 2
                     /\ Count(fixed_query', " AND ") = Len(conds) \div 2]_vars

\* rule 1 has run on four WHERE conditions, each on its own line
C23_Witness ==
    /\ pc = "fix"
    /\ i = 2
    /\ Count(original_query, "WHERE") = 4
    /\ fixed_query =
           "MATCH (a)\nWHERE a.x = 1 AND a.y = 2\nWHERE a.x = 1 AND a.y = 2 RETURN a"

\* the offset of the k-th '-[' of s
RECURSIVE NthPattern(_, _)
NthPattern(s, k) ==
    IF k = 1 THEN Find(s, "-[", 0)
    ELSE Find(s, "-[", NthPattern(s, k - 1) + 2)
\* the variable of the k-th relationship pattern of s, "" if it has none
RelationshipVar(s, k) ==
    Slice(s, NthPattern(s, k) + 2, Find(s, ":", NthPattern(s, k)))
\* s binds the name v to a node or to a relationship
Binds(s, v) == Contains(s, "(" \o v \o ")") \/ Contains(s, "[" \o v \o ":")

\* C24: in the fixed query of a two-relationship pattern, two relationships
\* that were anonymous in the input carry different variables, and a
\* relationship that was anonymous carries no name the input binds.
C24_IntroducedVariablesDistinct ==
    (Fixed /\ Input \in HopQueries) =>
        /\ Count(Output, "-[") = 2
        /\ (RelationshipVar(Input, 1) = "" /\ RelationshipVar(Input, 2) = "")
               => RelationshipVar(Output, 1) # RelationshipVar(Output, 2)
        /\ \A k \in 1..2 :
               RelationshipVar(Input, k) = ""
                   => ~Binds(Input, RelationshipVar(Output, k))

\* the last parenthesis character of s, "" if it has none
LastParenthesis(s) ==
    LET at == {p \in 0..(Len(s) - 1) : At(s, p) \in {"(", ")"}}
    IN  IF at = {} THEN ""
        ELSE At(s, CHOOSE p \in at : \A q \in at : q <= p)
\* s with one ')' at its end, before the final newline if it has one
ClosedOnce(s) ==
    IF At(s, Len(s) - 1) = "\n"
    THEN Slice(s, 0, Len(s) - 1) \o ")" \o "\n"
    ELSE s \o ")"

\* C25: rule 4 changes the text only when its last parenthesis character is
\* '('; it then puts exactly one ')' at the end of the text, before a final
\* newline, the one matched fragment holding one '(' and no ')'.
C25_RuleFourAppendsOneParenthesis ==
    [][(pc = "fix" /\ i = 4) =>
          /\ fixed_query' = IF LastParenthesis(fixed_query) = "("
                            THEN ClosedOnce(fixed_query)
                            ELSE fixed_query
          /\ Len(matches') = IF LastParenthesis(fixed_query) = "("
                             THEN 1 ELSE 0
          /\ \A k \in 1..Len(matches') :
                 /\ Count(matches'[k].g0, "(") = 1
                 /\ Count(matches'[k].g0, ")") = 0]_vars

\* rule 4 has closed the one parenthesis it saw open of two, before the
\* final newline
C25_Witness ==
    /\ pc = "fix"
    /\ i = 5
    /\ original_query = "MATCH (a) RETURN f(f(a\n"
    /\ fixed_query = "MATCH (a) RETURN f(f(a)\n"

\* C26: for an input that repeats one relationship condition under two WHERE
\* keywords, the fixed query has one WHERE and at most one copy of the
\* condition: rule 6 collapses in the same call the pair that rule 1 joined.
C26_FoldedDuplicateCollapsed ==
    (Fixed /\ Input \in RepeatedCondQueries) =>
        /\ Count(Output, "WHERE") = 1
        /\ Count(WherePart(Output), "(a)-[") <= 1
        /\ ~Contains(Output, "AND (a)-[")

\* the call on the two-WHERE input has returned, the pair folded and
\* collapsed into one condition
C26_Witness ==
    /\ Fixed
    /\ Input = "MATCH (a) WHERE (a)-[:R]->(b) WHERE (a)-[:R]->(b) RETURN a"
    /\ RulesUpTo(1, Input) =
           "MATCH (a) WHERE (a)-[:R]->(b) AND (a)-[:R]->(b) RETURN a"
    /\ Count(Output, "WHERE") = 1
    /\ Count(Output, "(a)-[") = 1

\* C27: a second call on the text a call returned for a non-empty string
\* returns that text again, with the same message.
C27_SecondCallChangesNothing ==
    Fixed =>
        /\ validate_and_fix(result.fixed_query).fixed_query
               = result.fixed_query
        /\ validate_and_fix(result.fixed_query).message = result.message

\* C28: process with a non-empty plan connects once, before the first
\* query, and closes on its way out: graph_db is None once process has
\* returned, on the normal and on the exception path; every execute_query
\* happens while graph_db is set and leaves it alone; graph_db is set only at
\* the start of a call with a non-empty plan, before anything was executed,
\* and reset only by the step that returns; with an empty plan graph_db stays
\* None.
C28_QueriesBetweenConnectAndClose ==
    /\ [](rpc = "done" => graph_db = "None")
    /\ [](query_plan = <<>> => graph_db = "None")
    /\ [][executed' # executed =>
             graph_db # "None" /\ graph_db' = graph_db]_vars
    /\ [][graph_db' # graph_db =>
             \/ /\ rpc = "start"
                /\ query_plan # <<>>
                /\ executed = <<>>
                /\ graph_db = "None"
             \/ /\ rpc' = "done"
                /\ graph_db' = "None"]_vars

\* process returned normally after two queries, one of which raised, and the
\* connection is gone
C28_Witness ==
    /\ rpc = "done"
    /\ response = "ok"
    /\ Len(executed) = 2
    /\ \E k \in 1..Len(retrieved_context) : retrieved_context[k].kind = "error"
    /\ graph_db = "None"

\* the entries of retrieved_context that stand for plan items (the entry of
\* the semantic search, when there is one, comes last and stands for no item)
ItemEntries ==
    IF retrieved_context # <<>>
       /\ retrieved_context[Len(retrieved_context)].kind = "semantic"
    THEN SubSeq(retrieved_context, 1, Len(retrieved_context) - 1)
    ELSE retrieved_context

\* C29: an exception raised while an item is executed does not stop the
\* plan: the step adds for that item one entry with 'error', an empty result
\* and result_count 0, and goes on with the next item; when process returns
\* after its loop, every item with a non-empty cypher was validated and
\* executed, in plan order, and retrieved_context holds exactly one entry for
\* each of them, in plan order, and none for the items without cypher.
C29_ErrorDoesNotStopThePlan ==
    /\ [][ProcessExecuteError =>
             LET entry == retrieved_context'[Len(retrieved_context')]
             IN  /\ Len(retrieved_context') = Len(retrieved_context) + 1
                 /\ entry.purpose = query_plan[item].purpose
                 /\ entry.original_cypher = query_plan[item].cypher
                 /\ entry.kind = "error"
                 /\ entry.error # None
                 /\ entry.result = <<>>
                 /\ entry.result_count = 0
                 /\ item' = item + 1
                 /\ rpc' = "loop"]_vars
    /\ [](rpc = "done" /\ response = "ok" =>
             LET items == NonEmptyItems(Len(query_plan))
             IN  /\ Len(ItemEntries) = Len(items)
                 /\ Len(validated) = Len(items)
                 /\ Len(executed) = Len(items)
                 /\ \A k \in 1..Len(items) :
                       /\ ItemEntries[k].purpose = items[k].purpose
                       /\ ItemEntries[k].original_cypher = items[k].cypher
                       /\ ItemEntries[k].kind \in {"result", "error"}
                       /\ validated[k] = items[k].cypher)

\* the first item raised, and the second was still validated, executed and
\* answered with records
C29_Witness ==
    /\ rpc = "done"
    /\ response = "ok"
    /\ Len(query_plan) = 2
    /\ Len(retrieved_context) = 2
    /\ retrieved_context[1].kind = "error"
    /\ retrieved_context[1].result_count = 0
    /\ retrieved_context[2].kind = "result"
    /\ retrieved_context[2].result_count = 1
    /\ Len(executed) = 2

\* C30: two process calls under way on one instance do not interfere through
\* self.graph_db: while a call is in its loop self.graph_db is the strategy
\* that call created, and it is open; every query of a call was executed on
\* the strategy the call created, while it was open.
C30_CallsKeepTheirOwnConnection ==
    \A t \in ProcessCalls :
        /\ proc_pc[t] = "loop" =>
              /\ shared_graph_db = proc_db[t]
              /\ strategies[proc_db[t]] = "open"
        /\ \A k \in 1..Len(proc_ran[t]) :
              /\ proc_ran[t][k].on = proc_db[t]
              /\ proc_ran[t][k].state = "open"

====
